---- MODULE Spec2Model ----
(***************************************************************************)
(* Risk evaluation and order submission of trades-ai.                      *)
(*                                                                         *)
(*   Spec      the daily risk ledger (risk.DailyTracker.Update) called by  *)
(*             several goroutines over one SQLite database (WAL mode,      *)
(*             deferred transactions, a pool of MaxOpenConns connections); *)
(*   SpecEval  risk.Manager.Evaluate, one caller, the ledger included;     *)
(*   SpecExec  execution.Executor.Execute / submitOrder against a broker   *)
(*             whose answers are nondeterministic.                         *)
(*                                                                         *)
(* Number representation.  Money (equity, prices) is counted in units of   *)
(* 100 currency units; fractions of equity (exposure, risk per trade) in   *)
(* units of 5e-7, so that exposureEpsilon = 1e-6 is 2 and values below the *)
(* tolerance exist; loss percent in parts per million, rounded down;       *)
(* confidence in thousandths.                                               *)
(***************************************************************************)
EXTENDS Integers, Sequences, FiniteSets, TLC

VARIABLES
    cfg,            \* config.RiskConfig + DatabaseConfig.MaxOpenConns, fixed at construction
    rows,           \* table risk_daily_metrics (committed): trading date -> row or NoRow
    activityLog,    \* table risk_activity_log (committed): sequence of entries
    writer,         \* the transaction holding SQLite's write lock, 0 when free
    pc,             \* per caller: position inside DailyTracker.Update
    call,           \* per caller: tradingDate and equity of the call in progress
    loc,            \* per caller: the locals startEquity, haltedInt read by the SELECT
    tx,             \* per caller: uncommitted row / log entries / result of the transaction
    stale,          \* per caller: another connection committed after this read snapshot
    ret,            \* per caller: what the last finished Update returned
    calls,          \* number of Update calls started so far
    haltedReturned, \* history: dates for which a status with halted=true was returned
    firstStart,     \* history: date -> startEquity of the first status returned for it
    variant,        \* which revision of the executor runs (both are in the repository)
    orders,         \* Execute: the order list received
    ctxDone,        \* Execute: the context has been cancelled
    epc,            \* Execute: "idle", "submit" (about to call the broker), "wait", "returned"
    idx,            \* Execute: position in the list of the order being submitted
    attempt,        \* submitOrder: the loop counter
    lastErr,        \* submitOrder: err of the last broker call
    brokerCalls,    \* the broker client's log of calls, in the order received
    accepted,       \* positions of the orders the broker accepted
    result,         \* Execute: the Result value
    retErr,         \* Execute: the error returned, "nil" when none
    evalIn,         \* Manager.Evaluate: the EvaluationInput of the last call
    evalOut,        \* Manager.Evaluate: the EvaluationResult it returned, NoEval once consumed
    buildIn,        \* BuildPlan: the ExecutionPlan and Options of the last call
    buildOut,       \* BuildPlan: the orders and the error it returned, NoBuild once consumed
    lastDecision,   \* orchestrator.lastDecision, 0 for the zero time
    clock,          \* time.Now()
    tpc,            \* Tick: "idle" between calls, "loop" inside the loop over the
                    \* assets, "returned" until the scheduler takes the result
    tnow,           \* Tick: the local now
    tidx,           \* Tick: position of the loop in assetStates
    tickRet,        \* what the latest Tick returned: "nil" or the error; "running" inside it
    ticks,          \* calls of Tick so far
    tkinds,         \* how the loop body ended for each asset of the latest Tick
    handed,         \* events the latest Tick passed to monitor.Service
    stored,         \* those of them that monitor.Service stored
    submitted       \* per asset: calls of Execute that submitted every order

ledgerVars == <<cfg, rows, activityLog, writer, pc, call, loc, tx, stale, ret,
                calls, haltedReturned, firstStart>>

execVars == <<variant, orders, ctxDone, epc, idx, attempt, lastErr, brokerCalls, accepted,
              result, retErr>>

evalVars == <<evalIn, evalOut>>

buildVars == <<buildIn, buildOut>>

tickVars == <<lastDecision, clock, tpc, tnow, tidx, tickRet, ticks, tkinds, handed,
              stored, submitted>>

vars == <<ledgerVars, execVars, evalVars, buildVars, tickVars>>

-----------------------------------------------------------------------------
(* Bounds *)

\* Update calls started in one behaviour
MaxCalls == 4

\* calls of Tick in one behaviour
MaxTicks == 2

\* goroutines calling Update on the same tracker
Callers == {1, 2}

\* account timestamps, in hours since the epoch
Timestamps == {3, 20, 30}

\* equity values, in units of 100
Equities == {0, 965, 970, 1000}

NoRow == [exists |-> FALSE]

NoStatus == [ok |-> FALSE, err |-> "none"]

\* configurations that pass Config.Validate: the defaults, a reset hour of 8, and
\* a connection pool of 1 or of 4 (the default)
Configs ==
    { [MaxTradeRisk |-> 20000, MaxDailyLoss |-> 30000, MaxExposure |-> 400000,
       ConfidenceFullRisk |-> 800, ConfidenceHalfRisk |-> 600,
       DailyLossResetHour |-> 8, MaxOpenConns |-> n] : n \in {1, 4} }

-----------------------------------------------------------------------------
(* risk/tracker.go *)

\* tradingDay: shift back by the reset hour, truncate to the UTC calendar day
tradingDay(ts, resetHour) ==
    LET h == IF resetHour < 0 \/ resetHour > 23 THEN 0 ELSE resetHour
    IN  (ts - h) \div 24

TradingDates == { tradingDay(ts, c.DailyLossResetHour) : ts \in Timestamps, c \in Configs }

\* lossPercent := 0.0; if startEquity > 0 { (equity - startEquity) / startEquity }
LossPercent(equity, startEquity) ==
    IF startEquity > 0 THEN ((equity - startEquity) * 1000000) \div startEquity ELSE 0

IsHaltedIgnoringStored(haltedInt, startEquity, lossPercent, maxDailyLoss) ==
    startEquity > 0 /\ lossPercent <= -maxDailyLoss

IsHaltedStrict(haltedInt, startEquity, lossPercent, maxDailyLoss) ==
    \/ haltedInt = 1
    \/ startEquity > 0 /\ lossPercent < -maxDailyLoss

\* halted := haltedInt == 1; if !halted && startEquity > 0 && lossPercent <= -MaxDailyLoss { halted = true }
IsHalted(haltedInt, startEquity, lossPercent, maxDailyLoss) ==
    \/ haltedInt = 1
    \/ startEquity > 0 /\ lossPercent <= -maxDailyLoss

\* INSERT INTO risk_daily_metrics (..) VALUES (?, ?, ?, 0, ?)
NewRow(equity) ==
    [exists |-> TRUE, start_equity |-> equity, current_equity |-> equity, halted |-> 0]

RowAfterUpdateResettingStart(row, equity) ==
    [row EXCEPT !.current_equity = equity, !.start_equity = equity]

\* UPDATE risk_daily_metrics SET current_equity = ?, updated_at = ? WHERE trading_date = ?
RowAfterUpdate(row, equity) ==
    [row EXCEPT !.current_equity = equity]

RowAfterHaltNoFlag(row) == row

\* UPDATE risk_daily_metrics SET halted = 1, updated_at = ? WHERE trading_date = ?
RowAfterHalt(row) ==
    [row EXCEPT !.halted = 1]

\* logEventTx(ctx, tx, tradingDate, "daily_halt", msg, "")
HaltEntry(date) ==
    [event_type |-> "daily_halt", trading_date |-> date]

DailyStatus(date, startEquity, equity, lossPercent, halted) ==
    [ok |-> TRUE, err |-> "none", TradingDate |-> date, StartEquity |-> startEquity,
     CurrentEquity |-> equity, LossPercent |-> lossPercent, Halted |-> halted]

NoTx == [row |-> NoRow, log |-> <<>>, result |-> NoStatus]

NoLoc == [found |-> FALSE, startEquity |-> 0, haltedInt |-> 0]

NoCall == [date |-> 0, equity |-> 0]

InTx(p) == pc[p] \in {"select", "update", "insert", "check", "commit"}

\* database/sql hands out at most MaxOpenConns connections; BeginTx waits for a free one
ConnAvailable == Cardinality({q \in Callers : InTx(q)}) < cfg.MaxOpenConns

\* SQLite (WAL): a read transaction is promoted to a write transaction only if no other
\* connection holds the write lock and none has committed since its snapshot was taken;
\* the busy handler is not invoked for a connection that already holds a read snapshot.
CanWrite(p) == writer \in {0, p} /\ ~stale[p]

\* tx, err := t.db.BeginTx(ctx, nil)
BeginTx(p, ts, equity) ==
    /\ pc[p] \in {"idle", "done", "failed"}
    /\ ConnAvailable
    /\ calls < MaxCalls
    /\ calls' = calls + 1
    /\ pc' = [pc EXCEPT ![p] = "select"]
    /\ call' = [call EXCEPT ![p] = [date |-> tradingDay(ts, cfg.DailyLossResetHour),
                                    equity |-> equity]]
    /\ loc' = [loc EXCEPT ![p] = NoLoc]
    /\ tx' = [tx EXCEPT ![p] = NoTx]
    /\ stale' = [stale EXCEPT ![p] = FALSE]
    /\ ret' = [ret EXCEPT ![p] = NoStatus]
    /\ UNCHANGED <<cfg, rows, activityLog, writer, haltedReturned, firstStart, execVars, evalVars, buildVars, tickVars>>

\* row := tx.QueryRowContext(ctx, `SELECT start_equity, halted ...`); row.Scan(..)
SelectRow(p) ==
    /\ pc[p] = "select"
    /\ LET row == rows[call[p].date]
       IN  IF row.exists
           THEN /\ loc' = [loc EXCEPT ![p] = [found |-> TRUE,
                                              startEquity |-> row.start_equity,
                                              haltedInt |-> row.halted]]
                /\ pc' = [pc EXCEPT ![p] = "update"]
           ELSE /\ loc' = [loc EXCEPT ![p] = NoLoc]
                /\ pc' = [pc EXCEPT ![p] = "insert"]
    /\ stale' = [stale EXCEPT ![p] = FALSE]
    /\ UNCHANGED <<cfg, rows, activityLog, writer, call, tx, ret, calls, haltedReturned,
                   firstStart, execVars, evalVars, buildVars, tickVars>>

FailKeepingWrites(p, why) ==
    /\ pc' = [pc EXCEPT ![p] = "failed"]
    /\ ret' = [ret EXCEPT ![p] = [ok |-> FALSE, err |-> why]]
    /\ rows' = [rows EXCEPT ![call[p].date] = IF tx[p].row.exists THEN tx[p].row ELSE @]
    /\ activityLog' = activityLog \o tx[p].log
    /\ tx' = [tx EXCEPT ![p] = NoTx]
    /\ writer' = IF writer = p THEN 0 ELSE writer
    /\ UNCHANGED <<cfg, call, loc, stale, calls, haltedReturned,
                   firstStart, execVars, evalVars, buildVars, tickVars>>

\* the deferred rollback and the error return of a failed statement
Fail(p, why) ==
    /\ pc' = [pc EXCEPT ![p] = "failed"]
    /\ ret' = [ret EXCEPT ![p] = [ok |-> FALSE, err |-> why]]
    /\ tx' = [tx EXCEPT ![p] = NoTx]
    /\ writer' = IF writer = p THEN 0 ELSE writer
    /\ UNCHANGED <<cfg, rows, activityLog, call, loc, stale, calls, haltedReturned,
                   firstStart, execVars, evalVars, buildVars, tickVars>>

\* case scanErr == nil: UPDATE ... SET current_equity
UpdateEquity(p) ==
    /\ pc[p] = "update"
    /\ IF CanWrite(p)
       THEN /\ writer' = p
            /\ tx' = [tx EXCEPT ![p].row = RowAfterUpdate(rows[call[p].date], call[p].equity)]
            /\ pc' = [pc EXCEPT ![p] = "check"]
            /\ UNCHANGED <<cfg, rows, activityLog, call, loc, stale, ret,
                           calls, haltedReturned, firstStart, execVars, evalVars, buildVars, tickVars>>
       ELSE Fail(p, "update_equity")

\* case errors.Is(scanErr, sql.ErrNoRows): INSERT ...; result = DailyStatus{...}
InsertRow(p) ==
    /\ pc[p] = "insert"
    /\ IF CanWrite(p)
       THEN /\ writer' = p
            /\ tx' = [tx EXCEPT ![p].row = NewRow(call[p].equity),
                                ![p].result = DailyStatus(call[p].date, call[p].equity,
                                                          call[p].equity, 0, FALSE)]
            /\ pc' = [pc EXCEPT ![p] = "commit"]
            /\ UNCHANGED <<cfg, rows, activityLog, call, loc, stale, ret,
                           calls, haltedReturned, firstStart, execVars, evalVars, buildVars, tickVars>>
       ELSE Fail(p, "insert_row")

\* lines 133-164: lossPercent, the halt decision with its UPDATE and log entry, result
HaltCheck(p) ==
    /\ pc[p] = "check"
    /\ LET lossPercent == LossPercent(call[p].equity, loc[p].startEquity)
           halted == IsHalted(loc[p].haltedInt, loc[p].startEquity, lossPercent,
                              cfg.MaxDailyLoss)
           newly == halted /\ loc[p].haltedInt # 1
       IN  tx' = [tx EXCEPT
                    ![p].row = IF newly THEN RowAfterHalt(@) ELSE @,
                    ![p].log = IF newly THEN <<HaltEntry(call[p].date)>> ELSE <<>>,
                    ![p].result = DailyStatus(call[p].date, loc[p].startEquity,
                                              call[p].equity, lossPercent, halted)]
    /\ pc' = [pc EXCEPT ![p] = "commit"]
    /\ UNCHANGED <<cfg, rows, activityLog, writer, call, loc, stale, ret,
                   calls, haltedReturned, firstStart, execVars, evalVars, buildVars, tickVars>>

\* the steps of the transaction that return an error, and the error each returns
TxSteps == {"select", "update", "insert", "check", "commit"}

StepError(step) ==
    CASE step = "select" -> "query_row"
      [] step = "update" -> "update_equity"
      [] step = "insert" -> "insert_row"
      [] step = "check"  -> "update_halted_or_log"
      [] OTHER           -> "commit"

\* a statement, or the commit, of the transaction fails for a reason outside the
\* program (cancelled context, I/O error): the error return of that step
StatementFails(p) ==
    /\ pc[p] \in TxSteps
    /\ Fail(p, StepError(pc[p]))

\* tx.Commit(); return result, nil
Commit(p) ==
    /\ pc[p] = "commit"
    /\ rows' = [rows EXCEPT ![call[p].date] = tx[p].row]
    /\ activityLog' = activityLog \o tx[p].log
    /\ writer' = 0
    /\ stale' = [q \in Callers |-> IF q # p /\ pc[q] \in {"update", "insert"}
                                   THEN TRUE ELSE stale[q]]
    /\ ret' = [ret EXCEPT ![p] = tx[p].result]
    /\ pc' = [pc EXCEPT ![p] = "done"]
    /\ haltedReturned' = IF tx[p].result.Halted
                         THEN haltedReturned \cup {call[p].date} ELSE haltedReturned
    /\ firstStart' = IF firstStart[call[p].date] = -1
                     THEN [firstStart EXCEPT ![call[p].date] = tx[p].result.StartEquity]
                     ELSE firstStart
    /\ tx' = [tx EXCEPT ![p] = NoTx]
    /\ UNCHANGED <<cfg, call, loc, calls, execVars, evalVars, buildVars, tickVars>>

InitLedgerWith(c) ==
    /\ cfg = c
    /\ rows = [d \in TradingDates |-> NoRow]
    /\ activityLog = <<>>
    /\ writer = 0
    /\ pc = [p \in Callers |-> "idle"]
    /\ call = [p \in Callers |-> NoCall]
    /\ loc = [p \in Callers |-> NoLoc]
    /\ tx = [p \in Callers |-> NoTx]
    /\ stale = [p \in Callers |-> FALSE]
    /\ ret = [p \in Callers |-> NoStatus]
    /\ calls = 0
    /\ haltedReturned = {}
    /\ firstStart = [d \in TradingDates |-> -1]

-----------------------------------------------------------------------------
(* execution/executor.go, exchange/errors.go *)

\* the two revisions of the executor: internal/execution/executor.go, and the one
\* that checks the amount and sends trigger orders through CreateOrder
Variants == {"typed", "trigger"}

\* orders of one batch
MaxOrders == 2

\* maxRetry: 3 in NewExecutor
MaxRetry == 3

\* order requests: what submitOrder looks at
OrderKinds ==
    { [Type |-> "market", IsTrigger |-> FALSE, AmountPositive |-> TRUE],
      [Type |-> "limit",  IsTrigger |-> TRUE,  AmountPositive |-> TRUE],
      [Type |-> "stop",   IsTrigger |-> FALSE, AmountPositive |-> TRUE],
      [Type |-> "market", IsTrigger |-> FALSE, AmountPositive |-> FALSE] }

RECURSIVE ListsOfLen(_)
ListsOfLen(n) ==
    IF n = 0 THEN {<<>>}
    ELSE { Append(l, k) : l \in ListsOfLen(n - 1), k \in OrderKinds }

OrderLists == UNION { ListsOfLen(n) : n \in 0..MaxOrders }

\* ccxt error types the classifier names
RetryableTypes ==
    {"NetworkError", "RequestTimeout", "ExchangeNotAvailable", "RateLimitExceeded",
     "DDoSProtection", "BadResponse", "NullResponse"}

\* other errors a broker call returns: ccxt errors of another type, and errors that
\* are no *ccxt.Error at all
FatalTypes == {"InsufficientFunds", "AuthenticationError", "plain"}

BrokerOutcomes == {"ok"} \cup RetryableTypes \cup FatalTypes

IsRetryableAlways(err) == err # "ok"

\* exchange.IsRetryable
IsRetryable(err) ==
    IF err = "ok" THEN FALSE
    ELSE IF err = "plain" THEN FALSE
    ELSE err \in RetryableTypes

\* the client method submitOrder calls for an order
ClientMethod(order) ==
    IF variant = "trigger" /\ order.IsTrigger THEN "CreateOrder"
    ELSE IF order.Type = "market" THEN "CreateMarketOrder"
    ELSE IF order.Type = "limit" THEN "CreateLimitOrder"
    ELSE "unsupported"

\* submitOrder returns without calling the broker: amount <= 0 (checked by the
\* "trigger" revision only), or an order type that is neither market nor limit
LocalError(order) ==
    IF variant = "trigger" /\ ~order.AmountPositive THEN "invalid_amount"
    ELSE IF ClientMethod(order) = "unsupported" THEN "unsupported_type"
    ELSE "none"

NoResult == [Orders |-> <<>>, Executed |-> FALSE, Notes |-> <<>>]

ResultAfterFailureExecuted(res) ==
    [res EXCEPT !.Executed = TRUE]

\* result.Notes = append(result.Notes, fmt.Sprintf("下单失败: %v", err))
ResultAfterFailure(res) ==
    [res EXCEPT !.Notes = Append(@, "order_failed")]

OrderFailedContinues(err) ==
    /\ lastErr' = err
    /\ IF idx < Len(orders)
       THEN /\ idx' = idx + 1
            /\ attempt' = 1
            /\ epc' = "submit"
            /\ UNCHANGED <<result, retErr>>
       ELSE /\ epc' = "returned"
            /\ result' = [result EXCEPT !.Executed = TRUE]
            /\ retErr' = "nil"
            /\ UNCHANGED <<idx, attempt>>

\* if err := e.submitOrder(ctx, order); err != nil { ...; return result, err }
OrderFailed(err) ==
    /\ epc' = "returned"
    /\ result' = ResultAfterFailure(result)
    /\ retErr' = err
    /\ UNCHANGED <<idx, attempt, lastErr>>

\* Execute, up to the first order (the executor keeps no state between calls, so one
\* call is followed from each initial state)
Execute(os, cancelled) ==
    /\ epc = "idle"
    /\ orders' = os
    /\ ctxDone' = cancelled
    /\ result' = [Orders |-> os, Executed |-> FALSE, Notes |-> <<>>]
    /\ retErr' = "nil"
    /\ epc' = IF Len(os) = 0 THEN "returned" ELSE "submit"
    /\ idx' = 1
    /\ attempt' = 1
    /\ lastErr' = "none"
    /\ brokerCalls' = <<>>
    /\ accepted' = {}
    /\ UNCHANGED <<ledgerVars, evalVars, buildVars, tickVars, variant>>

\* submitOrder fails before any broker call
RejectOrder ==
    /\ epc = "submit"
    /\ LocalError(orders[idx]) # "none"
    /\ OrderFailed(LocalError(orders[idx]))
    /\ UNCHANGED <<ledgerVars, evalVars, buildVars, tickVars, variant, orders, ctxDone, brokerCalls, accepted>>

\* one pass of the retry loop: the client call and what follows from its answer
CallBroker(outcome) ==
    /\ epc = "submit"
    /\ LocalError(orders[idx]) = "none"
    /\ brokerCalls' = Append(brokerCalls, [idx |-> idx, method |-> ClientMethod(orders[idx])])
    /\ IF outcome = "ok"
       THEN /\ accepted' = accepted \cup {idx}
            /\ lastErr' = "none"
            /\ IF idx = Len(orders)
               THEN /\ epc' = "returned"
                    /\ result' = [result EXCEPT !.Executed = TRUE]
                    /\ UNCHANGED <<idx, attempt>>
               ELSE /\ epc' = "submit"
                    /\ idx' = idx + 1
                    /\ attempt' = 1
                    /\ UNCHANGED result
            /\ UNCHANGED retErr
       ELSE IF ~IsRetryable(outcome)
       THEN /\ OrderFailed(outcome)
            /\ UNCHANGED accepted
       ELSE /\ epc' = "wait"
            /\ lastErr' = outcome
            /\ UNCHANGED <<idx, attempt, accepted, result, retErr>>
    /\ UNCHANGED <<ledgerVars, evalVars, buildVars, tickVars, variant, orders, ctxDone>>

\* case <-time.After(wait): the next pass, or the loop ends and the wrapped error is returned
WaitElapsed ==
    /\ epc = "wait"
    /\ ~ctxDone
    /\ IF attempt + 1 <= MaxRetry
       THEN /\ attempt' = attempt + 1
            /\ epc' = "submit"
            /\ UNCHANGED <<idx, lastErr, result, retErr>>
       ELSE OrderFailed("retry_exhausted")
    /\ UNCHANGED <<ledgerVars, evalVars, buildVars, tickVars, variant, orders, ctxDone, brokerCalls, accepted>>

WaitCancelledExhausted ==
    /\ epc = "wait"
    /\ ctxDone
    /\ OrderFailed("retry_exhausted")
    /\ UNCHANGED <<ledgerVars, evalVars, buildVars, tickVars, variant, orders, ctxDone, brokerCalls, accepted>>

\* case <-ctx.Done(): return ctx.Err()
WaitCancelled ==
    /\ epc = "wait"
    /\ ctxDone
    /\ OrderFailed("context_canceled")
    /\ UNCHANGED <<ledgerVars, evalVars, buildVars, tickVars, variant, orders, ctxDone, brokerCalls, accepted>>

\* the caller cancels the context of the running Execute
CancelContext ==
    /\ epc \in {"submit", "wait"}
    /\ ~ctxDone
    /\ ctxDone' = TRUE
    /\ UNCHANGED <<ledgerVars, evalVars, buildVars, tickVars, variant, orders, epc, idx, attempt, lastErr, brokerCalls,
                   accepted, result, retErr>>

InitExecIdle(v) ==
    /\ variant = v
    /\ orders = <<>>
    /\ ctxDone = FALSE
    /\ epc = "idle"
    /\ idx = 1
    /\ attempt = 1
    /\ lastErr = "none"
    /\ brokerCalls = <<>>
    /\ accepted = {}
    /\ result = NoResult
    /\ retErr = "nil"

-----------------------------------------------------------------------------
(* risk/manager.go *)

\* const exposureEpsilon = 1e-6, in units of 5e-7
exposureEpsilon == 2

\* maxExp = 0.20 when the configured MaxExposure is <= 0
DefaultMaxExposure == 400000

Abs(x) == IF x < 0 THEN -x ELSE x

Min(a, b) == IF a < b THEN a ELSE b

Max(a, b) == IF a > b THEN a ELSE b

\* math.Copysign(m, x) for m >= 0
Copysign(m, x) == IF x < 0 THEN -m ELSE m

\* a * b < 0, without forming the product
ProductNegative(a, b) == (a > 0 /\ b < 0) \/ (a < 0 /\ b > 0)

\* parseFloat: "" is 0 without error, an unparsable string is 0 with an error
parseFloat(value) ==
    CASE value = ""    -> [v |-> 0,   err |-> FALSE]
      [] value = "450" -> [v |-> 450, err |-> FALSE]
      [] value = "520" -> [v |-> 520, err |-> FALSE]
      [] value = "550" -> [v |-> 550, err |-> FALSE]
      [] OTHER         -> [v |-> 0,   err |-> TRUE]

\* Manager.confidenceFactor, in halves: 2 is factor 1.0, 1 is factor 0.5
confidenceFactor(confidence) ==
    IF confidence >= cfg.ConfidenceFullRisk THEN 2
    ELSE IF confidence >= cfg.ConfidenceHalfRisk THEN 1
    ELSE 0

resolveExposureSignHedgeFirst(direction, current, currentSide, intent) ==
    IF direction = "LONG" THEN 1
    ELSE IF direction = "SHORT" THEN -1
    ELSE IF direction = "FLAT" THEN 0
    ELSE IF intent = "HEDGE" /\ Abs(current) > exposureEpsilon THEN -Copysign(1, current)
    ELSE IF currentSide = "LONG" THEN 1
    ELSE IF currentSide = "SHORT" THEN -1
    ELSE IF current > 0 THEN 1
    ELSE IF current < 0 THEN -1
    ELSE 1

resolveExposureSign(direction, current, currentSide, intent) ==
    IF direction = "LONG" THEN 1
    ELSE IF direction = "SHORT" THEN -1
    ELSE IF direction = "FLAT" THEN 0
    ELSE IF currentSide = "LONG" THEN 1
    ELSE IF currentSide = "SHORT" THEN -1
    ELSE IF intent = "HEDGE" /\ Abs(current) > exposureEpsilon THEN -Copysign(1, current)
    ELSE IF current > 0 THEN 1
    ELSE IF current < 0 THEN -1
    ELSE 1

deriveDesiredExposureTargetFirst(intent, direction, target, adjustment, current, currentSide) ==
    IF intent = "CLOSE" \/ direction = "FLAT" THEN 0
    ELSE LET sign == resolveExposureSign(direction, current, currentSide, intent)
         IN  IF target > 0 \/ Abs(current) < exposureEpsilon THEN target * sign
             ELSE current + adjustment * sign

deriveDesiredExposure(intent, direction, target, adjustment, current, currentSide) ==
    IF intent = "CLOSE" \/ direction = "FLAT" THEN 0
    ELSE LET sign == resolveExposureSign(direction, current, currentSide, intent)
             byTarget == IF target > 0 THEN target * sign
                         ELSE IF Abs(current) < exposureEpsilon THEN target * sign
                         ELSE current
         IN  IF adjustment # 0 THEN current + adjustment * sign ELSE byTarget

orientationLabel(value) ==
    IF value > exposureEpsilon THEN "LONG"
    ELSE IF value < -exposureEpsilon THEN "SHORT"
    ELSE "FLAT"

selectStop(direction, decisionStop, atr, price) ==
    IF direction = "SHORT"
    THEN LET decisionCandidate == IF decisionStop > price THEN decisionStop ELSE 0
             atrCandidate == IF atr > 0 THEN price + 2 * atr ELSE 0
         IN  IF decisionCandidate > 0 /\ atrCandidate > 0
             THEN Min(decisionCandidate, atrCandidate)
             ELSE IF decisionCandidate > 0 THEN decisionCandidate
             ELSE IF atrCandidate > 0 THEN atrCandidate
             ELSE 0
    ELSE LET decisionCandidate == IF decisionStop > 0 /\ decisionStop < price
                                  THEN decisionStop ELSE 0
             atrCandidate == IF atr > 0 /\ price - 2 * atr > 0 THEN price - 2 * atr ELSE 0
         IN  IF decisionCandidate > 0 /\ atrCandidate > 0
             THEN Max(decisionCandidate, atrCandidate)
             ELSE IF decisionCandidate > 0 THEN decisionCandidate
             ELSE IF atrCandidate > 0 THEN atrCandidate
             ELSE 0

computeStopDistance(direction, price, stop) ==
    IF direction = "SHORT" THEN stop - price ELSE price - stop

\* maxExp := m.cfg.MaxExposure; if maxExp <= 0 { maxExp = 0.20 }
MaxExp == IF cfg.MaxExposure <= 0 THEN DefaultMaxExposure ELSE cfg.MaxExposure

ClampExposureOff(desired) == desired

ClampExposureUnsigned(desired) ==
    IF Abs(desired) > MaxExp THEN MaxExp ELSE desired

\* if math.Abs(desiredExposure) > maxExp { desiredExposure = math.Copysign(maxExp, desiredExposure) }
ClampExposure(desired) ==
    IF Abs(desired) > MaxExp THEN Copysign(MaxExp, desired) ELSE desired

\* increase := math.Abs(desired) > math.Abs(current)+exposureEpsilon || desired*current < 0
IncreasesExposure(desired, current) ==
    \/ Abs(desired) > Abs(current) + exposureEpsilon
    \/ ProductNegative(desired, current)

\* intent / direction as normalised at the top of Evaluate
NormalizeIntent(intent) == IF intent = "" THEN "ADJUST" ELSE intent

NormalizeDirection(direction) == IF direction = "" THEN "AUTO" ELSE direction

\* the desired exposure Evaluate derives from its input
DesiredExposure(in) ==
    deriveDesiredExposure(NormalizeIntent(in.Intent), NormalizeDirection(in.Direction),
                          in.TargetExposurePct, in.AdjustmentPct,
                          in.CurrentExposurePercent, in.PositionSide)

Deny(res, note) == [res EXCEPT !.Notes = Append(@, note)]

\* lines 54-92: the result as it stands after parsing and the "desired" note
BaseResult(in, status) ==
    LET stopP == parseFloat(in.NewStopLoss)
        takeP == parseFloat(in.NewTakeProfit)
    IN  [Status |-> "deny", DailyStatus |-> status,
         TargetExposurePercent |-> 0, RiskAmount |-> 0, ConfidenceApplied |-> 0,
         RecommendedStopLoss |-> stopP.v, RecommendedTakeProfit |-> takeP.v,
         Notes |-> (IF stopP.err THEN <<"stop_parse_failed">> ELSE <<>>)
                   \o (IF takeP.err THEN <<"take_parse_failed">> ELSE <<>>)
                   \o (IF in.OrderPreference # "" THEN <<"order_preference">> ELSE <<>>)
                   \o <<"desired">>]

CloseOrFlatUnlessHalted(res, current) ==
    IF Abs(current) < exposureEpsilon \/ res.DailyStatus.Halted
    THEN Deny(res, "already_flat")
    ELSE [res EXCEPT !.Status = "proceed", !.TargetExposurePercent = 0, !.RiskAmount = 0,
                     !.RecommendedStopLoss = 0, !.Notes = Append(@, "full_close")]

\* lines 96-107: desired exposure ~ 0
CloseOrFlat(res, current) ==
    IF Abs(current) < exposureEpsilon
    THEN Deny(res, "already_flat")
    ELSE [res EXCEPT !.Status = "proceed", !.TargetExposurePercent = 0, !.RiskAmount = 0,
                     !.RecommendedStopLoss = 0, !.Notes = Append(@, "full_close")]

SizeIncreaseIgnoringRisk(res, in, desired, current, factor, targetDirection) ==
    LET riskAmount == in.Equity * ((cfg.MaxTradeRisk * factor) \div 2)
    IN  IF riskAmount <= 0 THEN Deny(res, "zero_risk")
        ELSE IF Abs(desired - current) < exposureEpsilon THEN Deny(res, "noop_after_risk")
        ELSE [res EXCEPT !.Status = "proceed", !.TargetExposurePercent = desired,
                         !.RiskAmount = riskAmount, !.Notes = Append(@, "risk_limited")]

\* lines 165-203: an exposure-increasing move, sized by the risk budget
SizeIncrease(res, in, desired, current, factor, targetDirection) ==
    LET stopDistance == computeStopDistance(targetDirection, in.MarketPrice,
                                            res.RecommendedStopLoss)
        riskPerTrade == (cfg.MaxTradeRisk * factor) \div 2
        riskAmount == in.Equity * riskPerTrade
        \* riskPerTrade * (price / stopDistance); a zero stopDistance gives +Inf
        infinite == stopDistance = 0
        byRisk == IF infinite THEN 0 ELSE (riskPerTrade * in.MarketPrice) \div stopDistance
        targetByRisk == Min(byRisk, MaxExp)
        finalAbs == Min(Abs(desired), targetByRisk)
        finalExposure == Copysign(finalAbs, desired)
    IN  IF riskAmount <= 0 THEN Deny(res, "zero_risk")
        ELSE IF infinite \/ byRisk <= 0 THEN Deny(res, "risk_calc_failed")
        ELSE IF finalAbs <= exposureEpsilon THEN Deny(res, "no_position_after_risk")
        ELSE IF Abs(finalExposure - current) < exposureEpsilon
             THEN Deny(res, "noop_after_risk")
        ELSE [res EXCEPT !.Status = "proceed", !.TargetExposurePercent = finalExposure,
                         !.RiskAmount = riskAmount, !.Notes = Append(@, "risk_limited")]

ApplyReductionAlways(res, desired, current) ==
    [res EXCEPT !.Status = "proceed", !.TargetExposurePercent = desired,
                !.RiskAmount = 0, !.Notes = Append(@, "adjusted")]

\* lines 204-219: a move that does not increase exposure
ApplyReduction(res, desired, current) ==
    IF Abs(desired - current) < exposureEpsilon THEN Deny(res, "noop")
    ELSE [res EXCEPT !.Status = "proceed", !.TargetExposurePercent = desired,
                     !.RiskAmount = 0, !.Notes = Append(@, "adjusted")]

GateStopAndConfidenceAllMoves(res0, in, desired, current) ==
    LET factor == confidenceFactor(in.Confidence)
        res1 == [res0 EXCEPT !.ConfidenceApplied = factor * 500]
        targetDirection == orientationLabel(desired)
        finalStop == selectStop(targetDirection, res0.RecommendedStopLoss, in.ATRAbsolute,
                                in.MarketPrice)
        sized == Abs(desired) > exposureEpsilon
        res2 == IF sized THEN [res1 EXCEPT !.RecommendedStopLoss = finalStop] ELSE res1
    IN  IF sized /\ finalStop <= 0 THEN Deny(res1, "no_valid_stop")
        ELSE IF sized /\ computeStopDistance(targetDirection, in.MarketPrice, finalStop) <= 0
             THEN Deny(res1, "bad_stop_distance")
        ELSE IF factor <= 0 THEN Deny(res2, "low_confidence")
        ELSE IF IncreasesExposure(desired, current)
             THEN SizeIncrease(res2, in, desired, current, factor, targetDirection)
        ELSE ApplyReduction(res2, desired, current)

\* lines 140-163: confidence factor, stop selection, the confidence gate
GateStopAndConfidence(res0, in, desired, current) ==
    LET factor == confidenceFactor(in.Confidence)
        res1 == [res0 EXCEPT !.ConfidenceApplied = factor * 500]
        targetDirection == orientationLabel(desired)
        finalStop == selectStop(targetDirection, res0.RecommendedStopLoss, in.ATRAbsolute,
                                in.MarketPrice)
        sized == Abs(desired) > exposureEpsilon
        res2 == IF sized THEN [res1 EXCEPT !.RecommendedStopLoss = finalStop] ELSE res1
        increase == IncreasesExposure(desired, current)
    IN  IF sized /\ finalStop <= 0 THEN Deny(res1, "no_valid_stop")
        ELSE IF sized /\ computeStopDistance(targetDirection, in.MarketPrice, finalStop) <= 0
             THEN Deny(res1, "bad_stop_distance")
        ELSE IF increase /\ factor <= 0 THEN Deny(res2, "low_confidence")
        ELSE IF increase THEN SizeIncrease(res2, in, desired, current, factor, targetDirection)
        ELSE ApplyReduction(res2, desired, current)

\* lines 109-138: clamp, equity and price gates, the halt gate
GateAccountAndHalt(res0, in, desired0, current) ==
    LET clamped == Abs(desired0) > MaxExp
        desired == ClampExposure(desired0)
        res1 == IF clamped THEN [res0 EXCEPT !.Notes = Append(@, "clamped")] ELSE res0
    IN  IF in.Equity <= 0 THEN Deny(res1, "equity_invalid")
        ELSE IF in.MarketPrice <= 0 THEN Deny(res1, "price_invalid")
        ELSE IF res1.DailyStatus.Halted /\ IncreasesExposure(desired, current)
             THEN Deny(res1, "halted")
        ELSE GateStopAndConfidence(res1, in, desired, current)

\* Manager.Evaluate after the ledger call: the EvaluationResult for an input and
\* the DailyStatus the ledger returned
EvaluateWith(in, status) ==
    LET res == BaseResult(in, status)
        desired == DesiredExposure(in)
        current == in.CurrentExposurePercent
    IN  IF Abs(desired) < exposureEpsilon
        THEN CloseOrFlat(res, current)
        ELSE GateAccountAndHalt(res, in, desired, current)

\* DailyTracker.Update run by a single caller: the row, the log entries and the
\* status of one whole transaction
UpdateAlone(row, date, equity) ==
    IF ~row.exists
    THEN [row |-> NewRow(equity), log |-> <<>>,
          status |-> DailyStatus(date, equity, equity, 0, FALSE)]
    ELSE LET lossPercent == LossPercent(equity, row.start_equity)
             halted == IsHalted(row.halted, row.start_equity, lossPercent, cfg.MaxDailyLoss)
             newly == halted /\ row.halted # 1
             updated == RowAfterUpdate(row, equity)
         IN  [row |-> IF newly THEN RowAfterHalt(updated) ELSE updated,
              log |-> IF newly THEN <<HaltEntry(date)>> ELSE <<>>,
              status |-> DailyStatus(date, row.start_equity, equity, lossPercent, halted)]

NoEval == [Status |-> "none"]

NoInput == [Symbol |-> "none"]

\* Manager.Evaluate, lines 48-52 and on: what it returns for the outcome of Update
EvaluateReturn(in, status) ==
    IF ~status.ok
    THEN [result |-> NoEval, err |-> status.err]
    ELSE [result |-> EvaluateWith(in, status), err |-> "nil"]

\* Decision.Validate, on the fields Evaluate reads
DecisionValid(d) ==
    /\ d.Intent \in {"OPEN", "ADJUST", "CLOSE", "HEDGE", "OBSERVE"}
    /\ d.Direction \in {"LONG", "SHORT", "FLAT", "AUTO"}
    /\ d.TargetExposurePct >= 0 /\ d.TargetExposurePct <= 2000000
    /\ Abs(d.AdjustmentPct) <= 2000000
    /\ d.Confidence >= 0 /\ d.Confidence <= 1000
    /\ d.Intent \in {"OPEN", "ADJUST", "HEDGE"} => d.NewStopLoss # "" /\ d.NewTakeProfit # ""

\* exposureFromSummary: the signed exposure of a position summary
exposureFromSummary(side, size) ==
    IF side = "LONG" THEN size ELSE IF side = "SHORT" THEN -size ELSE 0

\* Inputs of Evaluate as orchestrator.Tick builds them: a decision that passed
\* Decision.Validate, the position summary with the exposure derived from it,
\* the account equity, the market price and the ATR of the feature snapshot.
\* Prices and stops are chosen so that riskPerTrade * price / stopDistance is a
\* whole number of units.
Decisions ==
    { d \in [Intent : {"OPEN", "CLOSE", "HEDGE"},
             Direction : {"LONG", "SHORT", "FLAT", "AUTO"},
             TargetExposurePct : {0, 2, 200000, 600000},
             AdjustmentPct : {0, -100000},
             Confidence : {400, 650, 850},
             NewStopLoss : {"", "n/a", "450", "550"},
             NewTakeProfit : {"520"}] : DecisionValid(d) }

PositionSummaries ==
    { [Side |-> "", Size |-> 0], [Side |-> "LONG", Size |-> 1],
      [Side |-> "LONG", Size |-> 200000], [Side |-> "SHORT", Size |-> 200000],
      [Side |-> "LONG", Size |-> 600000] }

Markets == [Timestamp : {20}, Equity : {0, 965, 1000}, ATRAbsolute : {0, 10},
            MarketPrice : {0, 500}]

EvaluationInput(d, pos, m) ==
    [Symbol |-> "BTC", Intent |-> d.Intent, Direction |-> d.Direction,
     TargetExposurePct |-> d.TargetExposurePct, AdjustmentPct |-> d.AdjustmentPct,
     Confidence |-> d.Confidence, OrderPreference |-> "",
     NewStopLoss |-> d.NewStopLoss, NewTakeProfit |-> d.NewTakeProfit,
     PositionSide |-> pos.Side,
     CurrentExposurePercent |-> exposureFromSummary(pos.Side, pos.Size),
     ATRAbsolute |-> m.ATRAbsolute, MarketPrice |-> m.MarketPrice,
     Timestamp |-> m.Timestamp, Equity |-> m.Equity]

EvalInputs ==
    { EvaluationInput(d, pos, m) : d \in Decisions, pos \in PositionSummaries, m \in Markets }

\* Manager.Evaluate: the ledger call, then the evaluation
Evaluate(in) ==
    /\ evalOut = NoEval
    /\ LET date == tradingDay(in.Timestamp, cfg.DailyLossResetHour)
           upd == UpdateAlone(rows[date], date, in.Equity)
       IN  /\ rows' = [rows EXCEPT ![date] = upd.row]
           /\ activityLog' = activityLog \o upd.log
           /\ haltedReturned' = IF upd.status.Halted
                                THEN haltedReturned \cup {date} ELSE haltedReturned
           /\ firstStart' = IF firstStart[date] = -1
                            THEN [firstStart EXCEPT ![date] = upd.status.StartEquity]
                            ELSE firstStart
           /\ evalOut' = EvaluateWith(in, upd.status)
    /\ evalIn' = in
    /\ UNCHANGED <<cfg, writer, pc, call, loc, tx, stale, ret, calls, execVars, buildVars, tickVars>>

\* the caller takes the result (orchestrator.Tick records it and goes on)
TakeResult ==
    /\ evalOut # NoEval
    /\ evalOut' = NoEval
    /\ evalIn' = NoInput
    /\ UNCHANGED <<ledgerVars, execVars, buildVars, tickVars>>

\* arguments of deriveDesiredExposure taken one by one, the position side not tied
\* to the sign of the current exposure
DeriveInputs ==
    [Symbol : {"BTC"}, Intent : {"OPEN", "CLOSE", "HEDGE", ""},
     Direction : {"LONG", "SHORT", "FLAT", "AUTO", ""},
     TargetExposurePct : {0, 200000}, AdjustmentPct : {0, 100000, -100000},
     CurrentExposurePercent : {0, 1, -1, 200000, -200000},
     PositionSide : {"", "LONG", "SHORT"}]

\* a call of deriveDesiredExposure with the intent and direction as Evaluate
\* normalises them; the sign is the value resolveExposureSign returns for them
DeriveDesired(in) ==
    /\ evalOut = NoEval
    /\ evalIn' = in
    /\ evalOut' = [Status |-> "derived",
                   Desired |-> DesiredExposure(in),
                   Sign |-> resolveExposureSign(NormalizeDirection(in.Direction),
                                                in.CurrentExposurePercent, in.PositionSide,
                                                NormalizeIntent(in.Intent))]
    /\ UNCHANGED <<ledgerVars, execVars, buildVars, tickVars>>

InitEvalIdle ==
    /\ evalIn = NoInput
    /\ evalOut = NoEval

-----------------------------------------------------------------------------
(* execution: buildOrderRequests, in both revisions of the executor *)

\* the literal 1e-6 of buildOrderRequests, in units of 5e-7
planEpsilon == 2

sameDirection(a, b) ==
    IF a = 0 \/ b = 0 THEN FALSE ELSE (a > 0 /\ b > 0) \/ (a < 0 /\ b < 0)

\* formatSlippage: fmt.Sprintf("%.6f", value), the slippage in millionths
formatSlippage(value) ==
    CASE value = 10000 -> "0.010000"
      [] value = 0     -> "0.000000"
      [] OTHER         -> "other"

\* strings.ToLower on the time-in-force values
ToLower(value) ==
    CASE value = "GTC" -> "gtc"
      [] value = "IOC" -> "ioc"
      [] OTHER         -> value

\* parsePriceString: empty, unparsable and non-positive strings give (0, false)
parsePriceString(value) ==
    CASE value = "450" -> [v |-> 450, ok |-> TRUE]
      [] value = "520" -> [v |-> 520, ok |-> TRUE]
      [] value = "550" -> [v |-> 550, ok |-> TRUE]
      [] OTHER         -> [v |-> 0,   ok |-> FALSE]

\* formatPrice: strconv.FormatFloat(value, 'f', -1, 64)
formatPrice(value) ==
    CASE value = 450 -> "450"
      [] value = 520 -> "520"
      [] value = 550 -> "550"
      [] OTHER       -> "other"

\* math.Abs(exposure) * plan.Account.TotalEquity / plan.MarketPrice, in units of 5e-7
OrderAmount(exposure, equity, price) == (Abs(exposure) * equity) \div price

BuildErrorPriceFirst(plan) ==
    IF plan.MarketPrice <= 0 THEN "price_invalid"
    ELSE IF plan.Status # "proceed" THEN "risk_not_allowed"
    ELSE IF Abs(plan.TargetExposure - plan.CurrentExposure) < planEpsilon THEN "noop"
    ELSE IF plan.TotalEquity <= 0 THEN "equity_invalid"
    ELSE "nil"

BuildErrorExactNoop(plan) ==
    IF plan.Status # "proceed" THEN "risk_not_allowed"
    ELSE IF plan.MarketPrice <= 0 THEN "price_invalid"
    ELSE IF plan.TargetExposure = plan.CurrentExposure THEN "noop"
    ELSE IF plan.TotalEquity <= 0 THEN "equity_invalid"
    ELSE "nil"

\* the error returns of buildOrderRequests, in the order the code tests them
BuildError(plan) ==
    IF plan.Status # "proceed" THEN "risk_not_allowed"
    ELSE IF plan.MarketPrice <= 0 THEN "price_invalid"
    ELSE IF Abs(plan.TargetExposure - plan.CurrentExposure) < planEpsilon THEN "noop"
    ELSE IF plan.TotalEquity <= 0 THEN "equity_invalid"
    ELSE IF OrderAmount(plan.TargetExposure - plan.CurrentExposure, plan.TotalEquity,
                        plan.MarketPrice) <= 0 THEN "amount_invalid"
    ELSE "nil"

PrimarySideInverted(plan) ==
    IF plan.TargetExposure - plan.CurrentExposure < 0 THEN "buy" ELSE "sell"

\* side := OrderSideBuy; if exposureDiff < 0 { side = OrderSideSell }
PrimarySide(plan) ==
    IF plan.TargetExposure - plan.CurrentExposure < 0 THEN "sell" ELSE "buy"

CloseAll(plan) == Abs(plan.TargetExposure) < planEpsilon

ReduceOnlySameSideOnly(plan) ==
    sameDirection(plan.TargetExposure, plan.CurrentExposure)

\* reduceOnly := sameDirection(target, current) && |target| <= |current|; forced by closeAll
ReduceOnly(plan) ==
    \/ /\ sameDirection(plan.TargetExposure, plan.CurrentExposure)
       /\ Abs(plan.TargetExposure) <= Abs(plan.CurrentExposure)
    \/ CloseAll(plan)

\* params of the primary order; the revision that embeds the protection adds the
\* option flags and the stop-loss / take-profit prices of the plan
PrimaryParams(plan, opts) ==
    {<<"reduceOnly", ReduceOnly(plan)>>}
    \cup (IF CloseAll(plan) THEN {<<"closePosition", TRUE>>} ELSE {})
    \cup (IF opts.Slippage > 0 THEN {<<"slippage", formatSlippage(opts.Slippage)>>} ELSE {})
    \cup (IF variant = "typed" /\ opts.PostOnly THEN {<<"postOnly", TRUE>>} ELSE {})
    \cup (IF variant = "typed" /\ opts.TimeInForce # ""
          THEN {<<"timeInForce", ToLower(opts.TimeInForce)>>} ELSE {})
    \cup (IF variant = "typed" /\ ~CloseAll(plan) /\ plan.StopLoss > 0
          THEN {<<"stopLossPrice", plan.StopLoss>>} ELSE {})
    \cup (IF variant = "typed" /\ ~CloseAll(plan) /\ plan.TakeProfit > 0
          THEN {<<"takeProfitPrice", plan.TakeProfit>>} ELSE {})

PrimaryOrder(plan, opts) ==
    [Type |-> "market", Side |-> PrimarySide(plan),
     Amount |-> OrderAmount(plan.TargetExposure - plan.CurrentExposure, plan.TotalEquity,
                            plan.MarketPrice),
     Price |-> plan.MarketPrice, ReduceOnly |-> ReduceOnly(plan), CloseAll |-> CloseAll(plan),
     Params |-> PrimaryParams(plan, opts),
     IsTrigger |-> (variant = "typed" /\ ~CloseAll(plan)
                    /\ (plan.StopLoss > 0 \/ plan.TakeProfit > 0)),
     TriggerType |-> "", TriggerPrice |-> 0]

\* one protective order of the revision that places them separately
TriggerOrder(plan, opts, triggerType, paramKey, price) ==
    [Type |-> "limit",
     Side |-> IF plan.TargetExposure < 0 THEN "buy" ELSE "sell",
     Amount |-> OrderAmount(plan.TargetExposure, plan.TotalEquity, plan.MarketPrice),
     Price |-> price, ReduceOnly |-> TRUE, CloseAll |-> FALSE,
     Params |-> {<<"reduceOnly", TRUE>>, <<paramKey, formatPrice(price)>>}
                \cup (IF opts.Slippage > 0
                      THEN {<<"slippage", formatSlippage(opts.Slippage)>>} ELSE {}),
     IsTrigger |-> TRUE, TriggerType |-> triggerType, TriggerPrice |-> price]

ProtectionOrdersStopOnly(plan, opts) ==
    LET sl == parsePriceString(plan.NewStopLoss)
    IN  IF variant = "trigger" /\ plan.TargetExposure # 0 /\ ~CloseAll(plan)
           /\ plan.TotalEquity > 0 /\ sl.ok
        THEN <<TriggerOrder(plan, opts, "stop_loss", "stopLossPrice", sl.v)>>
        ELSE <<>>

\* the take-profit order, then the stop-loss order, after the primary order
ProtectionOrders(plan, opts) ==
    LET sl == parsePriceString(plan.NewStopLoss)
        tp == parsePriceString(plan.NewTakeProfit)
        amount == OrderAmount(plan.TargetExposure, plan.TotalEquity, plan.MarketPrice)
    IN  IF variant = "trigger" /\ plan.TargetExposure # 0 /\ ~CloseAll(plan)
           /\ plan.TotalEquity > 0 /\ amount > 0
        THEN (IF tp.ok THEN <<TriggerOrder(plan, opts, "take_profit", "takeProfitPrice", tp.v)>>
              ELSE <<>>)
             \o (IF sl.ok THEN <<TriggerOrder(plan, opts, "stop_loss", "stopLossPrice", sl.v)>>
                 ELSE <<>>)
        ELSE <<>>

buildOrderRequests(plan, opts) ==
    IF BuildError(plan) # "nil"
    THEN [orders |-> <<>>, err |-> BuildError(plan)]
    ELSE [orders |-> <<PrimaryOrder(plan, opts)>> \o ProtectionOrders(plan, opts),
          err |-> "nil"]

NoBuild == [err |-> "none"]

NoPlan == [Status |-> "none"]

\* plans handed to BuildPlan: the risk status, exposures, price, equity, the
\* stop-loss / take-profit of the plan and the decision's price strings.  Equity
\* and price are chosen so that the amounts are whole numbers of units.
Plans ==
    [Status : {"proceed", "deny"},
     TargetExposure : {0, 1, -1, 2, 200000, -200000, 400000},
     CurrentExposure : {0, 1, -1, 200000, -200000, 400000},
     MarketPrice : {0, 500}, TotalEquity : {0, 1000},
     StopLoss : {0, 450}, TakeProfit : {0, 520},
     NewStopLoss : {"", "n/a", "450"}, NewTakeProfit : {"", "0", "520"}]

\* the ExecutionPlan Tick builds from an evaluation input, its result and the
\* total equity of the balance
ExecutionPlanOf(in, res, totalEquity) ==
    [Status |-> res.Status,
     TargetExposure |-> res.TargetExposurePercent,
     CurrentExposure |-> in.CurrentExposurePercent,
     MarketPrice |-> in.MarketPrice, TotalEquity |-> totalEquity,
     StopLoss |-> res.RecommendedStopLoss, TakeProfit |-> res.RecommendedTakeProfit,
     NewStopLoss |-> in.NewStopLoss, NewTakeProfit |-> in.NewTakeProfit]

BuildOptions ==
    { [Slippage |-> 0, PostOnly |-> FALSE, TimeInForce |-> ""],
      [Slippage |-> 10000, PostOnly |-> TRUE, TimeInForce |-> "GTC"] }

\* Executor.BuildPlan
BuildPlan(plan, opts) ==
    /\ buildOut = NoBuild
    /\ buildIn' = [plan |-> plan, opts |-> opts]
    /\ buildOut' = buildOrderRequests(plan, opts)
    /\ UNCHANGED <<ledgerVars, execVars, evalVars, tickVars>>

\* the caller takes the orders, or the error
TakeOrders ==
    /\ buildOut # NoBuild
    /\ buildOut' = NoBuild
    /\ buildIn' = [plan |-> NoPlan, opts |-> NoPlan]
    /\ UNCHANGED <<ledgerVars, execVars, evalVars, tickVars>>

InitBuildIdle ==
    /\ buildIn = [plan |-> NoPlan, opts |-> NoPlan]
    /\ buildOut = NoBuild

-----------------------------------------------------------------------------
(* app: orchestrator.Tick, with monitor.Service as the audit sink *)

\* the configured markets, by asset key
TickAssets == <<"BTC", "ETH">>

\* scheduler.decision_interval, in clock units
DecisionInterval == 2

\* the latest clock value of a behaviour
MaxClock == DecisionInterval + 1

\* func firstPositive(values ...float64) float64, for two values
firstPositive(a, b) == IF a > 0 THEN a ELSE IF b > 0 THEN b ELSE 0

\* the asset has no entry in decisionMap
NoDecision == [Intent |-> "none"]

DecisionToOpen(confidence) ==
    [Intent |-> "OPEN", Direction |-> "LONG", TargetExposurePct |-> 200000,
     AdjustmentPct |-> 0, Confidence |-> confidence, NewStopLoss |-> "450",
     NewTakeProfit |-> "520"]

DecisionToClose ==
    [Intent |-> "CLOSE", Direction |-> "FLAT", TargetExposurePct |-> 0,
     AdjustmentPct |-> 0, Confidence |-> 850, NewStopLoss |-> "", NewTakeProfit |-> "520"]

\* type assetState, with the decision returned for the asset
AssetState(decision, summary, balance, price) ==
    [decision |-> decision, summary |-> summary, balance |-> balance, price |-> price,
     atr |-> 10, generatedAt |-> 20]

FlatSummary == [Side |-> "", Size |-> 0]

LongSummary == [Side |-> "LONG", Size |-> 200000]

FullBalance == [TotalEquity |-> 1000, TotalUSD |-> 1000]

\* a balance whose total equity is missing while the USD total is reported
UsdOnlyBalance == [TotalEquity |-> 0, TotalUSD |-> 1000]

\* the states an asset can be in when the loop reaches it: no decision; a decision
\* to open with full or with insufficient confidence; a decision to close a long
\* position, with and without a market price; a decision to open on a balance
\* that reports no total equity
AssetStates ==
    { AssetState(NoDecision, FlatSummary, FullBalance, 500),
      AssetState(DecisionToOpen(850), FlatSummary, FullBalance, 500),
      AssetState(DecisionToOpen(400), FlatSummary, FullBalance, 500),
      AssetState(DecisionToClose, LongSummary, FullBalance, 500),
      AssetState(DecisionToClose, LongSummary, FullBalance, 0),
      AssetState(DecisionToOpen(850), FlatSummary, UsdOnlyBalance, 500) }

\* lines 247-260: account and evalInput
TickEvalInput(asset, st) ==
    [EvaluationInput(st.decision, st.summary,
                     [Timestamp |-> st.generatedAt,
                      Equity |-> firstPositive(st.balance.TotalEquity, st.balance.TotalUSD),
                      ATRAbsolute |-> st.atr, MarketPrice |-> st.price])
        EXCEPT !.Symbol = asset]

\* execution.Options of the configuration
TickOptions == [Slippage |-> 0, PostOnly |-> FALSE, TimeInForce |-> ""]

\* monitor.Event, by type, asset and the part of the payload that is told apart
Event(type, asset, detail) == [type |-> type, asset |-> asset, detail |-> detail]

EventTypes == {"market_snapshot", "position", "ai_decision", "risk_evaluation",
               "execution", "error"}

\* which INSERTs of the sink succeed during one pass of the loop: all, none, all
\* but the risk evaluation, all but the execution or error event
SinkOutcomes ==
    { [t \in EventTypes |-> TRUE], [t \in EventTypes |-> FALSE],
      [t \in EventTypes |-> t # "risk_evaluation"],
      [t \in EventTypes |-> t \notin {"execution", "error"}] }

\* the ledger call of Evaluate, run alone: the row, the log entries and the status,
\* or the error of a failed Update
TickLedger(in, ledgerOk) ==
    LET date == tradingDay(in.Timestamp, cfg.DailyLossResetHour)
    IN  IF ledgerOk
        THEN UpdateAlone(rows[date], date, in.Equity)
        ELSE [row |-> rows[date], log |-> <<>>, status |-> [ok |-> FALSE, err |-> "update"]]

\* Executor.Execute, by its outcome: (result with Executed = true, nil) or
\* (result with the failure note, err)
ExecuteOutcome(os, execOk) ==
    LET started == [Orders |-> os, Executed |-> FALSE, Notes |-> <<>>]
    IN  IF execOk
        THEN [result |-> [started EXCEPT !.Executed = TRUE], err |-> "nil"]
        ELSE [result |-> ResultAfterFailure(started), err |-> "execute"]

\* lines 236-307, the body of the loop for one asset: how it ends, the error Tick
\* returns from it, and the events it hands to the monitor, in order
AssetFlow(asset, st, status, execOk) ==
    LET in == TickEvalInput(asset, st)
        ev == EvaluateReturn(in, status)
        plan == ExecutionPlanOf(in, ev.result, st.balance.TotalEquity)
        built == buildOrderRequests(plan, TickOptions)
        exec == ExecuteOutcome(built.orders, execOk)
        decided == Event("ai_decision", asset, st.decision.Intent)
        assessed == Event("risk_evaluation", asset, ev.result.Status)
    IN  IF st.decision = NoDecision
        THEN [kind |-> "no_decision", err |-> "nil", handed |-> {}]
        ELSE IF ev.err # "nil"
        THEN [kind |-> "eval_error", err |-> ev.err,
              handed |-> {decided, Event("error", asset, ev.err)}]
        ELSE IF ev.result.Status # "proceed"
        THEN [kind |-> "denied", err |-> "nil", handed |-> {decided, assessed}]
        ELSE IF built.err # "nil"
        THEN [kind |-> "plan_rejected", err |-> built.err,
              handed |-> {decided, assessed, Event("error", asset, built.err)}]
        ELSE IF exec.err # "nil"
        THEN [kind |-> "exec_error", err |-> exec.err,
              handed |-> {decided, assessed, Event("error", asset, exec.err)}]
        ELSE [kind |-> "executed", err |-> "nil",
              handed |-> {decided, assessed, Event("execution", asset, "executed")}]

AssetOutcomeSinkFatal(asset, st, status, execOk, sinkOk) ==
    LET flow == AssetFlow(asset, st, status, execOk)
        lost == { e \in flow.handed : ~sinkOk[e.type] }
    IN  [kind |-> flow.kind,
         err |-> IF lost # {} THEN "monitor" ELSE flow.err,
         handed |-> flow.handed,
         stored |-> flow.handed \ lost]

\* the loop body with the sink: Service.Record* store the event when the INSERT
\* succeeds, log a warning when it fails, and return nothing; sinkOk tells for
\* each type of event whether its INSERT succeeds in this pass
AssetOutcome(asset, st, status, execOk, sinkOk) ==
    LET flow == AssetFlow(asset, st, status, execOk)
    IN  [kind |-> flow.kind, err |-> flow.err, handed |-> flow.handed,
         stored |-> { e \in flow.handed : sinkOk[e.type] }]

\* lines 156-179: RecordMarketSnapshot and RecordPosition for every asset
SnapshotEvents ==
    { Event(type, TickAssets[i], "snapshot") :
        type \in {"market_snapshot", "position"}, i \in 1..Len(TickAssets) }

TickSkipsNever(last, now) == FALSE

\* if !o.lastDecision.IsZero() && now.Sub(o.lastDecision) < o.decisionInterval { return nil }
TickSkips(last, now) == last # 0 /\ now - last < DecisionInterval

\* time passes between two calls of Tick
Advance ==
    /\ tpc = "idle"
    /\ clock < MaxClock
    /\ clock' = clock + 1
    /\ UNCHANGED <<lastDecision, tpc, tnow, tidx, tickRet, ticks, tkinds, handed, stored,
                   submitted>>
    /\ UNCHANGED <<ledgerVars, execVars, evalVars, buildVars>>

\* Tick up to the loop over the assets (lines 143-234): the interval gate, the
\* snapshots of every asset, the decisions of the model
StartTick(gathered, sinkOk) ==
    /\ tpc = "idle"
    /\ ticks < MaxTicks
    /\ ticks' = ticks + 1
    /\ tnow' = clock
    /\ tkinds' = <<>>
    /\ tidx' = 1
    /\ IF TickSkips(lastDecision, clock)
       THEN /\ tickRet' = "nil"
            /\ tpc' = "returned"
            /\ handed' = {}
            /\ stored' = {}
       ELSE IF gathered = "market_snapshot"
       THEN /\ tickRet' = gathered
            /\ tpc' = "returned"
            /\ handed' = {Event("error", TickAssets[1], gathered)}
            /\ stored' = IF sinkOk THEN handed' ELSE {}
       ELSE IF gathered = "ai_error"
       THEN /\ tickRet' = gathered
            /\ tpc' = "returned"
            /\ handed' = SnapshotEvents \cup {Event("error", "", gathered)}
            /\ stored' = IF sinkOk THEN handed' ELSE {}
       ELSE /\ tickRet' = "running"
            /\ tpc' = "loop"
            /\ handed' = SnapshotEvents
            /\ stored' = IF sinkOk THEN handed' ELSE {}
    /\ UNCHANGED <<lastDecision, clock, submitted>>
    /\ UNCHANGED <<ledgerVars, execVars, evalVars, buildVars>>

\* one pass of the loop over assetStates (lines 236-307); st is the entry of
\* assetStates the loop has reached, with the decision returned for the asset
ProcessAsset(st, ledgerOk, execOk, sinkOk) ==
    /\ tpc = "loop"
    /\ tidx <= Len(TickAssets)
    /\ LET asset == TickAssets[tidx]
           in == TickEvalInput(asset, st)
           date == tradingDay(in.Timestamp, cfg.DailyLossResetHour)
           called == st.decision # NoDecision
           upd == TickLedger(in, ledgerOk)
           out == AssetOutcome(asset, st, upd.status, execOk, sinkOk)
       IN  /\ rows' = IF called THEN [rows EXCEPT ![date] = upd.row] ELSE rows
           /\ activityLog' = IF called THEN activityLog \o upd.log ELSE activityLog
           /\ haltedReturned' = IF called /\ ledgerOk /\ upd.status.Halted
                                THEN haltedReturned \cup {date} ELSE haltedReturned
           /\ firstStart' = IF called /\ ledgerOk /\ firstStart[date] = -1
                            THEN [firstStart EXCEPT ![date] = upd.status.StartEquity]
                            ELSE firstStart
           /\ tkinds' = Append(tkinds, out.kind)
           /\ handed' = handed \cup out.handed
           /\ stored' = stored \cup out.stored
           /\ submitted' = IF out.kind = "executed"
                           THEN [submitted EXCEPT ![tidx] = @ + 1] ELSE submitted
           /\ IF out.err = "nil"
              THEN /\ tidx' = tidx + 1
                   /\ UNCHANGED <<tpc, tickRet>>
              ELSE /\ tpc' = "returned"
                   /\ tickRet' = out.err
                   /\ UNCHANGED tidx
    /\ UNCHANGED <<lastDecision, clock, tnow, ticks>>
    /\ UNCHANGED <<cfg, writer, pc, call, loc, tx, stale, ret, calls, execVars, evalVars,
                   buildVars>>

\* lines 309-310: o.lastDecision = now; return nil
FinishTick ==
    /\ tpc = "loop"
    /\ tidx > Len(TickAssets)
    /\ lastDecision' = tnow
    /\ tickRet' = "nil"
    /\ tpc' = "returned"
    /\ UNCHANGED <<clock, tnow, tidx, ticks, tkinds, handed, stored, submitted>>
    /\ UNCHANGED <<ledgerVars, execVars, evalVars, buildVars>>

\* the scheduler takes what Tick returned and waits for the next tick
TakeTickResult ==
    /\ tpc = "returned"
    /\ tpc' = "idle"
    /\ tkinds' = <<>>
    /\ handed' = {}
    /\ stored' = {}
    /\ tidx' = 1
    /\ UNCHANGED <<lastDecision, clock, tnow, tickRet, ticks, submitted>>
    /\ UNCHANGED <<ledgerVars, execVars, evalVars, buildVars>>

\* outcomes of the steps before the loop: all data gathered, the error of the
\* first market snapshot, or the error of GenerateDecision
GatherOutcomes == {"ok", "market_snapshot", "ai_error"}

InitTickIdle ==
    /\ lastDecision = 0
    /\ clock = 1
    /\ tpc = "idle"
    /\ tnow = 0
    /\ tidx = 1
    /\ tickRet = "none"
    /\ ticks = 0
    /\ tkinds = <<>>
    /\ handed = {}
    /\ stored = {}
    /\ submitted = [i \in 1..Len(TickAssets) |-> 0]

-----------------------------------------------------------------------------
(* Specifications *)

DefaultConfig == CHOOSE c \in Configs : c.MaxOpenConns = 4

Init ==
    /\ \E c \in Configs : InitLedgerWith(c)
    /\ InitExecIdle("typed")
    /\ InitEvalIdle
    /\ InitBuildIdle
    /\ InitTickIdle

Next ==
    \E p \in Callers :
        \/ \E ts \in Timestamps, equity \in Equities : BeginTx(p, ts, equity)
        \/ SelectRow(p)
        \/ UpdateEquity(p)
        \/ InsertRow(p)
        \/ HaltCheck(p)
        \/ Commit(p)

Spec == Init /\ [][Next]_vars

NextExec ==
    \/ \E os \in OrderLists, c \in BOOLEAN : Execute(os, c)
    \/ RejectOrder
    \/ \E outcome \in BrokerOutcomes : CallBroker(outcome)
    \/ WaitElapsed
    \/ WaitCancelled
    \/ CancelContext

InitExec ==
    /\ InitLedgerWith(DefaultConfig)
    /\ \E v \in Variants : InitExecIdle(v)
    /\ InitEvalIdle
    /\ InitBuildIdle
    /\ InitTickIdle

\* the ledger with statements that can fail
NextFault ==
    \E p \in Callers :
        \/ \E equity \in {965, 1000} : BeginTx(p, 20, equity)
        \/ SelectRow(p)
        \/ UpdateEquity(p)
        \/ InsertRow(p)
        \/ HaltCheck(p)
        \/ Commit(p)
        \/ StatementFails(p)

InitFault ==
    /\ InitLedgerWith(DefaultConfig)
    /\ InitExecIdle("typed")
    /\ InitEvalIdle
    /\ InitBuildIdle
    /\ InitTickIdle

SpecFault == InitFault /\ [][NextFault]_vars

SpecExec == InitExec /\ [][NextExec]_vars

NextEval ==
    \/ evalOut = NoEval /\ \E in \in EvalInputs : Evaluate(in)
    \/ TakeResult

InitEval ==
    /\ InitLedgerWith(DefaultConfig)
    /\ InitExecIdle("typed")
    /\ InitEvalIdle
    /\ InitBuildIdle
    /\ InitTickIdle

SpecEval == InitEval /\ [][NextEval]_vars

NextDerive ==
    \/ evalOut = NoEval /\ \E in \in DeriveInputs : DeriveDesired(in)
    \/ TakeResult

SpecDerive == InitEval /\ [][NextDerive]_vars

NextBuild ==
    \/ buildOut = NoBuild /\ \E plan \in Plans, opts \in BuildOptions : BuildPlan(plan, opts)
    \/ TakeOrders

InitBuild ==
    /\ InitLedgerWith(DefaultConfig)
    /\ \E v \in Variants : InitExecIdle(v)
    /\ InitEvalIdle
    /\ InitBuildIdle
    /\ InitTickIdle

SpecBuild == InitBuild /\ [][NextBuild]_vars

\* the scheduler calling Tick
NextTick ==
    \/ Advance
    \/ \E gathered \in GatherOutcomes, sinkOk \in BOOLEAN : StartTick(gathered, sinkOk)
    \/ tpc = "loop" /\ \E st \in AssetStates, ledgerOk, execOk \in BOOLEAN,
                          sinkOk \in SinkOutcomes :
                          ProcessAsset(st, ledgerOk, execOk, sinkOk)
    \/ FinishTick
    \/ TakeTickResult

InitTick ==
    /\ InitLedgerWith(DefaultConfig)
    /\ InitExecIdle("typed")
    /\ InitEvalIdle
    /\ InitBuildIdle
    /\ InitTickIdle

SpecTick == InitTick /\ [][NextTick]_vars

-----------------------------------------------------------------------------
(* Claims about the daily ledger, checked under Spec *)

Done(p) == pc[p] = "done" /\ ret[p].ok

\* C1: once a status with halted=true has been returned for a trading date, every
\* Update that returns later for that date returns halted=true, also when the
\* equity passed has recovered above the loss threshold.
C1_HaltedMonotonic ==
    [][\A p \in Callers :
          (pc[p] = "commit" /\ pc'[p] = "done" /\ call[p].date \in haltedReturned)
              => ret'[p].Halted]_vars

\* a halted status returned although the loss of that call is above the threshold
C1_Witness ==
    \E p \in Callers :
        /\ Done(p) /\ loc[p].found /\ loc[p].haltedInt = 1
        /\ ret[p].Halted
        /\ ret[p].LossPercent > -cfg.MaxDailyLoss

\* C2 (as claimed): concurrent Update calls on one ledger behave like some serial
\* order of them; in particular no call fails because of the race.
C2_NoCallFailsInRace ==
    \A p \in Callers : pc[p] # "failed"

\* C5: an Update that finds the row of its date not yet halted returns halted=true
\* exactly when (equity - startEquity)/startEquity <= -maxDailyLoss, the loss
\* being 0 when startEquity <= 0.
C5_HaltIffLossAtThreshold ==
    \A p \in Callers :
        (Done(p) /\ loc[p].found /\ loc[p].haltedInt = 0) =>
            LET s == loc[p].startEquity
                e == call[p].equity
            IN  /\ ret[p].Halted <=> (s > 0 /\ (e - s) * 1000000 <= -cfg.MaxDailyLoss * s)
                /\ s <= 0 => ret[p].LossPercent = 0
                /\ ret[p].Halted => rows[call[p].date].halted = 1

\* Scenario B: startEquity 100000, equity 96500, maxDailyLoss 0.03: loss -0.035, halted
C5_Witness ==
    \E p \in Callers :
        /\ Done(p) /\ loc[p].found /\ loc[p].haltedInt = 0
        /\ loc[p].startEquity = 1000 /\ call[p].equity = 965
        /\ cfg.MaxDailyLoss = 30000
        /\ ret[p].LossPercent = -35000
        /\ ret[p].Halted

\* C6: the first Update of a trading date creates the row and returns
\* startEquity = currentEquity = equity, lossPercent = 0, halted = false, whatever
\* the state of earlier dates; every status returned for the date carries the
\* startEquity of the first one.
C6_FirstUpdateCreatesRow ==
    \A p \in Callers :
        Done(p) =>
            /\ ~loc[p].found =>
                  /\ ret[p].StartEquity = call[p].equity
                  /\ ret[p].CurrentEquity = call[p].equity
                  /\ ret[p].LossPercent = 0
                  /\ ret[p].Halted = FALSE
                  /\ rows[call[p].date].exists
            /\ ret[p].TradingDate = call[p].date
            /\ ret[p].StartEquity = firstStart[call[p].date]
            /\ rows[call[p].date].start_equity = firstStart[call[p].date]

\* a date created after the previous date was halted, and a later status of it
C6_Witness ==
    \E p, q \in Callers :
        /\ Done(p) /\ ~loc[p].found /\ ret[p].Halted = FALSE
        /\ \E d \in TradingDates :
              d < call[p].date /\ rows[d].exists /\ rows[d].halted = 1
        /\ Done(q) /\ loc[q].found /\ call[q].date = call[p].date
        /\ ret[q].CurrentEquity # ret[q].StartEquity
        /\ ret[q].StartEquity = ret[p].StartEquity

\* calls of Evaluate that can be waiting for a ledger call: one decision to open
\* a position, in every market
PendingInputs ==
    { EvaluationInput(d, pos, m) :
        d \in {[Intent |-> "OPEN", Direction |-> "LONG", TargetExposurePct |-> 200000,
                AdjustmentPct |-> 0, Confidence |-> 850, NewStopLoss |-> "450",
                NewTakeProfit |-> "520"]},
        pos \in {[Side |-> "", Size |-> 0]}, m \in Markets }

\* C12: when a step of the ledger transaction fails, Update returns an error,
\* Evaluate returns that error and no evaluation result, and nothing of the failed
\* call is committed: the rows and the activity log change only in the step that
\* commits a successful call, and stay as they are in the step that fails.
C12_FailedUpdateLeavesLedger ==
    [][ /\ \A p \in Callers :
              (pc[p] # "failed" /\ pc'[p] = "failed") =>
                  /\ rows' = rows
                  /\ activityLog' = activityLog
                  /\ tx'[p] = NoTx
                  /\ writer' # p
                  /\ ~ret'[p].ok /\ ret'[p].err # "none"
                  /\ \A in \in PendingInputs :
                        /\ EvaluateReturn(in, ret'[p]).result = NoEval
                        /\ EvaluateReturn(in, ret'[p]).err = ret'[p].err
        /\ (rows' # rows \/ activityLog' # activityLog) =>
              \E p \in Callers : pc[p] = "commit" /\ pc'[p] = "done" /\ ret'[p].ok ]_vars

\* the commit of a transaction that holds the halt update and its log entry failed
C12_Witness ==
    \E p \in Callers :
        /\ pc[p] = "failed"
        /\ ret[p].err = "commit"
        /\ rows[call[p].date].exists
        /\ rows[call[p].date].halted = 0
        /\ LossPercent(call[p].equity, rows[call[p].date].start_equity) <= -cfg.MaxDailyLoss
        /\ rows[call[p].date].start_equity > 0
        /\ activityLog = <<>>

\* the daily_halt entries of a trading date in the risk-activity log
HaltEntriesOf(date) ==
    { i \in 1..Len(activityLog) :
        /\ activityLog[i].event_type = "daily_halt"
        /\ activityLog[i].trading_date = date }

\* C29: after any sequence of Update calls, successful or failed, the row of a
\* trading date has halted = 1 if and only if the risk-activity log holds
\* exactly one daily_halt entry for that date.
C29_HaltFlagMatchesLog ==
    \A date \in TradingDates :
        (rows[date].exists /\ rows[date].halted = 1)
            <=> Cardinality(HaltEntriesOf(date)) = 1

\* a halted date with its one entry, after a failed call for that date and a
\* successful call that found the date already halted
C29_Witness ==
    \E date \in TradingDates, p, q \in Callers :
        /\ rows[date].exists /\ rows[date].halted = 1
        /\ Cardinality(HaltEntriesOf(date)) = 1
        /\ pc[p] = "failed" /\ call[p].date = date
        /\ Done(q) /\ call[q].date = date /\ loc[q].found /\ loc[q].haltedInt = 1

-----------------------------------------------------------------------------
(* Claims about order submission, checked under SpecExec *)

Returned == epc = "returned"

CallsOf(k) == Cardinality({ i \in DOMAIN brokerCalls : brokerCalls[i].idx = k })

\* C4: the broker is called for the orders in the order of the list, one at a time:
\* every call for order k comes after the broker accepted orders 1..k-1 and no call
\* for an earlier order follows it; so after a failed first order no later order
\* has been submitted.
C4_SubmitsInSequence ==
    /\ \A i \in DOMAIN brokerCalls :
          /\ \A k \in 1..(brokerCalls[i].idx - 1) : k \in accepted
          /\ \A j \in DOMAIN brokerCalls : i < j => brokerCalls[i].idx <= brokerCalls[j].idx
          /\ brokerCalls[i].idx \in DOMAIN orders
          /\ brokerCalls[i].method = ClientMethod(orders[brokerCalls[i].idx])
    /\ (Returned /\ 1 \notin accepted) =>
          \A i \in DOMAIN brokerCalls : brokerCalls[i].idx = 1

\* the primary order was tried and failed, a protective order was waiting, none was sent
C4_Witness ==
    /\ Returned /\ retErr # "nil"
    /\ Len(orders) >= 2
    /\ 1 \notin accepted
    /\ Len(brokerCalls) >= 1
    /\ CallsOf(2) = 0

\* C9 (as claimed): at most 3 broker attempts per order, a re-attempt only after a
\* network, timeout, rate-limit or unavailable error, any other error ends the
\* order at once.
C9_RetryOnlyNamedClasses ==
    /\ \A k \in DOMAIN orders : CallsOf(k) <= 3
    /\ (epc = "submit" /\ attempt > 1) =>
          lastErr \in {"NetworkError", "RequestTimeout", "RateLimitExceeded",
                       "ExchangeNotAvailable"}

\* C9 (amended): at most 3 broker attempts per order; a re-attempt follows only an
\* error the classifier marks retryable, which are the ccxt types NetworkError,
\* RequestTimeout, ExchangeNotAvailable, RateLimitExceeded, DDoSProtection,
\* BadResponse and NullResponse; any other error ends the order, and the batch,
\* after that single failing attempt.
C9_RetryOnlyClassified ==
    /\ \A k \in DOMAIN orders : CallsOf(k) <= 3
    /\ (epc \in {"submit", "wait"} /\ (attempt > 1 \/ epc = "wait")) =>
          lastErr \in {"NetworkError", "RequestTimeout", "ExchangeNotAvailable",
                       "RateLimitExceeded", "DDoSProtection", "BadResponse",
                       "NullResponse"}
    /\ \A e \in {"InsufficientFunds", "AuthenticationError", "plain"} :
          (Returned /\ retErr = e) => (CallsOf(idx) = attempt /\ idx \notin accepted)
    /\ retErr \in {"InsufficientFunds", "AuthenticationError", "plain"} => Returned

\* three attempts of one order, each answered by a retryable error
C9_Witness ==
    /\ Returned /\ retErr = "retry_exhausted"
    /\ CallsOf(idx) = 3
    /\ lastErr = "BadResponse"

\* C10: when an order of the batch fails, Execute returns executed=false, a note
\* and a non-nil error; executed=true is returned only when the broker accepted
\* every order of the batch.
C10_FailureAbortsBatch ==
    Returned =>
        /\ result.Executed => (\A k \in DOMAIN orders : k \in accepted) /\ retErr = "nil"
        /\ (\E k \in DOMAIN orders : k \notin accepted) =>
              /\ ~result.Executed
              /\ Len(result.Notes) = 1
              /\ retErr # "nil"
        /\ result.Orders = orders

\* the first order was accepted, the second failed: the batch reports failure
C10_Witness ==
    /\ Returned
    /\ Len(orders) >= 2 /\ 1 \in accepted /\ 2 \notin accepted
    /\ CallsOf(2) >= 1
    /\ ~result.Executed /\ retErr # "nil"

\* C11: when the context is cancelled while submitOrder waits between attempts,
\* the wait ends by returning the context's cancellation error: no further broker
\* call is made, for this order or a later one, and the error is never the
\* retry-exhausted error; a retry-exhausted error is returned only when the context
\* was not cancelled.
C11_CancelEndsWait ==
    [][ /\ (epc = "wait" /\ ctxDone /\ epc' # "wait") =>
              /\ epc' = "returned"
              /\ retErr' = "context_canceled"
              /\ brokerCalls' = brokerCalls
              /\ ~result'.Executed
        /\ (epc = "returned" /\ retErr = "context_canceled") => brokerCalls' = brokerCalls
        /\ (epc' = "returned" /\ retErr' = "retry_exhausted") => ~ctxDone' ]_vars

\* cancelled during the first wait of the first order while a second order was waiting
C11_Witness ==
    /\ Returned /\ retErr = "context_canceled"
    /\ ctxDone
    /\ Len(orders) >= 2 /\ idx = 1
    /\ CallsOf(1) = 1 /\ CallsOf(2) = 0
    /\ lastErr \in RetryableTypes

-----------------------------------------------------------------------------
(* Claims about Manager.Evaluate, checked under SpecEval *)

Evaluated == evalOut # NoEval

\* the desired exposure Evaluate works with once the exposure cap is applied
CappedDesired == ClampExposure(DesiredExposure(evalIn))

\* the move is to a larger magnitude than the current exposure, or to the other side
MoveIncreases ==
    \/ Abs(CappedDesired) > Abs(evalIn.CurrentExposurePercent)
    \/ ProductNegative(CappedDesired, evalIn.CurrentExposurePercent)

LastNote == evalOut.Notes[Len(evalOut.Notes)]

\* the evaluation went past the close / already-flat branch
PastCloseBranch == Abs(DesiredExposure(evalIn)) >= exposureEpsilon

\* C3: when the ledger is halted, every decision whose desired exposure is larger
\* in magnitude than the current exposure, or of the opposite sign, is denied,
\* and a decision that does neither is never denied because of the halt.
C3_HaltedDeniesIncrease ==
    (Evaluated /\ evalOut.DailyStatus.Halted /\ PastCloseBranch) =>
        /\ MoveIncreases => evalOut.Status = "deny"
        /\ ~MoveIncreases => LastNote # "halted"

\* C7: a decision that would increase exposure (larger magnitude than current,
\* or opposite sign) with confidence below ConfidenceHalfRisk is denied,
\* whatever the other inputs are.
C7_LowConfidenceDeniesIncrease ==
    (Evaluated /\ PastCloseBranch /\ MoveIncreases
        /\ evalIn.Confidence < cfg.ConfidenceHalfRisk) =>
        evalOut.Status = "deny"

\* C8: when the desired exposure is within 1e-6 of zero, Evaluate denies with
\* "already flat" if the current exposure is within 1e-6 of zero too, and
\* otherwise proceeds with target 0 and risk amount 0, halted or not.
C8_CloseAlwaysAllowed ==
    (Evaluated /\ Abs(DesiredExposure(evalIn)) < exposureEpsilon) =>
        IF Abs(evalIn.CurrentExposurePercent) < exposureEpsilon
        THEN evalOut.Status = "deny" /\ LastNote = "already_flat"
        ELSE /\ evalOut.Status = "proceed"
             /\ evalOut.TargetExposurePercent = 0
             /\ evalOut.RiskAmount = 0

\* a full close of an open position returned while the ledger is halted
C8_Witness ==
    /\ Evaluated
    /\ evalOut.DailyStatus.Halted
    /\ Abs(DesiredExposure(evalIn)) < exposureEpsilon
    /\ Abs(evalIn.CurrentExposurePercent) >= exposureEpsilon
    /\ evalOut.Status = "proceed"
    /\ evalOut.TargetExposurePercent = 0

\* the position of a note in the notes of the result, 0 when it is not there
NoteIndex(note) ==
    IF \E i \in DOMAIN evalOut.Notes : evalOut.Notes[i] = note
    THEN CHOOSE i \in DOMAIN evalOut.Notes : evalOut.Notes[i] = note
    ELSE 0

\* the configured cap with the sign of the desired exposure
SignedCap ==
    IF DesiredExposure(evalIn) < 0 THEN -cfg.MaxExposure ELSE cfg.MaxExposure

\* C18: when the magnitude of the desired exposure exceeds maxExposure, Evaluate
\* replaces it by exactly maxExposure with the original sign, notes the clamp
\* right after deriving the exposure, and every later gate works on the clamped
\* value: a move that does not increase exposure proceeds to the signed cap, is a
\* no-op only when the current exposure is at the signed cap, and no approved
\* target exceeds the cap.
C18_ClampToMaxExposure ==
    (Evaluated /\ Abs(DesiredExposure(evalIn)) > cfg.MaxExposure) =>
        /\ CappedDesired = SignedCap
        /\ NoteIndex("clamped") = NoteIndex("desired") + 1
        /\ LastNote = "adjusted" => evalOut.TargetExposurePercent = SignedCap
        /\ LastNote = "noop" =>
              Abs(SignedCap - evalIn.CurrentExposurePercent) < exposureEpsilon
        /\ evalOut.Status = "proceed" =>
              /\ Abs(evalOut.TargetExposurePercent) <= cfg.MaxExposure
              /\ ~ProductNegative(evalOut.TargetExposurePercent, SignedCap)

\* a short of 0.30 asked for with maxExposure 0.20 and a long position of 0.10:
\* the evaluation went on with -0.20
C18_Witness ==
    /\ Evaluated
    /\ DesiredExposure(evalIn) = -600000
    /\ evalIn.CurrentExposurePercent = 200000
    /\ NoteIndex("clamped") > 0
    /\ evalOut.Status = "proceed"
    /\ evalOut.TargetExposurePercent < 0

\* the stop price of the decision as Evaluate parses it
DecisionStop == parseFloat(evalIn.NewStopLoss).v

\* the higher of the decision's stop, if below the price, and price - 2 ATR, if
\* positive; 0 when there is neither
HigherLongStop ==
    LET ai == IF DecisionStop > 0 /\ DecisionStop < evalIn.MarketPrice THEN DecisionStop ELSE 0
        byATR == IF evalIn.ATRAbsolute > 0 /\ evalIn.MarketPrice - 2 * evalIn.ATRAbsolute > 0
                 THEN evalIn.MarketPrice - 2 * evalIn.ATRAbsolute ELSE 0
    IN  IF ai > byATR THEN ai ELSE byATR

\* the lower of the decision's stop, if above the price, and price + 2 ATR; 0 when
\* there is neither
LowerShortStop ==
    LET ai == IF DecisionStop > evalIn.MarketPrice THEN DecisionStop ELSE 0
        byATR == IF evalIn.ATRAbsolute > 0
                 THEN evalIn.MarketPrice + 2 * evalIn.ATRAbsolute ELSE 0
    IN  IF ai = 0 THEN byATR
        ELSE IF byATR = 0 THEN ai
        ELSE IF ai < byATR THEN ai ELSE byATR

ExpectedStop == IF CappedDesired > 0 THEN HigherLongStop ELSE LowerShortStop

\* the evaluation reached the stop selection
ReachedStopSelection ==
    /\ Evaluated /\ PastCloseBranch
    /\ LastNote \notin {"equity_invalid", "price_invalid", "halted"}

\* C24: for a non-flat target the recommended stop is the higher of the two long
\* candidates, or the lower of the two short candidates; without a candidate
\* Evaluate denies; and in every proceed result with a nonzero target the
\* recommended stop is strictly below the price for a long target and strictly
\* above it for a short target.
C24_StopOnLosingSide ==
    /\ (ReachedStopSelection /\ Abs(CappedDesired) > exposureEpsilon) =>
          IF ExpectedStop = 0
          THEN evalOut.Status = "deny" /\ LastNote = "no_valid_stop"
          ELSE evalOut.RecommendedStopLoss = ExpectedStop
    /\ (Evaluated /\ evalOut.Status = "proceed" /\ evalOut.TargetExposurePercent # 0) =>
          IF evalOut.TargetExposurePercent > 0
          THEN /\ evalOut.RecommendedStopLoss > 0
               /\ evalOut.RecommendedStopLoss < evalIn.MarketPrice
          ELSE evalOut.RecommendedStopLoss > evalIn.MarketPrice

\* the move is an increase as Evaluate classifies it
ClassifiedIncrease == IncreasesExposure(CappedDesired, evalIn.CurrentExposurePercent)

\* maxTradeRisk x confidenceFactor
RiskPerTrade == (cfg.MaxTradeRisk * confidenceFactor(evalIn.Confidence)) \div 2

\* the distance from the price to the recommended stop, on the side of the target
SizingStopDistance ==
    IF CappedDesired < 0 THEN evalOut.RecommendedStopLoss - evalIn.MarketPrice
    ELSE evalIn.MarketPrice - evalOut.RecommendedStopLoss

\* min(|desired|, maxExposure, maxTradeRisk x confidenceFactor x price / stopDistance)
RiskSizedMagnitude ==
    Min(Min(Abs(CappedDesired), MaxExp),
        (RiskPerTrade * evalIn.MarketPrice) \div SizingStopDistance)

RiskSizedTarget == IF CappedDesired < 0 THEN 0 - RiskSizedMagnitude ELSE RiskSizedMagnitude

C26_ReductionNeedsNoConfidence ==
    (Evaluated /\ PastCloseBranch /\ ~ClassifiedIncrease) =>
        /\ LastNote # "low_confidence"
        /\ (evalIn.Equity > 0 /\ evalIn.MarketPrice > 0 /\ ExpectedStop > 0) =>
              IF Abs(CappedDesired - evalIn.CurrentExposurePercent) < exposureEpsilon
              THEN evalOut.Status = "deny" /\ LastNote = "noop"
              ELSE /\ evalOut.Status = "proceed"
                   /\ evalOut.RiskAmount = 0
                   /\ evalOut.TargetExposurePercent = CappedDesired

\* a reduction approved although the confidence is below the half-risk threshold
C26_Witness ==
    /\ Evaluated /\ PastCloseBranch /\ ~ClassifiedIncrease
    /\ confidenceFactor(evalIn.Confidence) = 0
    /\ evalOut.Status = "proceed"
    /\ evalOut.RiskAmount = 0
    /\ evalOut.TargetExposurePercent = CappedDesired
    /\ Abs(CappedDesired) > exposureEpsilon
    /\ Abs(CappedDesired) < Abs(evalIn.CurrentExposurePercent)

\* the exposure cap: the configured maximum, 0.20 when that is not positive
ExposureCap == IF cfg.MaxExposure <= 0 THEN 400000 ELSE cfg.MaxExposure

\* C27: every result of Evaluate with status proceed has a target exposure whose
\* magnitude is at most the exposure cap, whatever the decision, the current
\* exposure (even one above the cap), the confidence and the stop.
C27_ApprovedTargetWithinCap ==
    (Evaluated /\ evalOut.Status = "proceed") =>
        Abs(evalOut.TargetExposurePercent) <= ExposureCap

\* a reduction approved from a current exposure above the cap, for a desired
\* exposure that was itself above the cap
C27_Witness ==
    /\ Evaluated /\ evalOut.Status = "proceed"
    /\ Abs(evalIn.CurrentExposurePercent) > ExposureCap
    /\ Abs(DesiredExposure(evalIn)) > ExposureCap
    /\ Abs(DesiredExposure(evalIn)) < Abs(evalIn.CurrentExposurePercent)
    /\ Abs(evalOut.TargetExposurePercent) = ExposureCap

\* C28: every result of Evaluate with status proceed has a target at least 1e-6
\* away from the current exposure, so buildOrderRequests, given that target and
\* the same current exposure, never rejects the plan as already at target.
C28_ApprovedPlanIsNotNoop ==
    (Evaluated /\ evalOut.Status = "proceed") =>
        /\ Abs(evalOut.TargetExposurePercent - evalIn.CurrentExposurePercent)
              >= exposureEpsilon
        /\ \A totalEquity \in {0, evalIn.Equity} :
              BuildError(ExecutionPlanOf(evalIn, evalOut, totalEquity)) # "noop"

\* an approved move of exactly 1e-6, the smallest one both tolerances let through
C28_Witness ==
    /\ Evaluated /\ evalOut.Status = "proceed"
    /\ Abs(evalOut.TargetExposurePercent - evalIn.CurrentExposurePercent)
          = exposureEpsilon
    /\ BuildError(ExecutionPlanOf(evalIn, evalOut, evalIn.Equity)) = "nil"

-----------------------------------------------------------------------------
(* Claims about deriveDesiredExposure and resolveExposureSign, checked under SpecDerive *)

Derived == evalOut # NoEval /\ evalOut.Status = "derived"

ClosesOrFlat == NormalizeIntent(evalIn.Intent) = "CLOSE" \/ evalIn.Direction = "FLAT"

\* C19 (as claimed): for a decision that is neither CLOSE nor FLAT the desired
\* exposure is target * sign when a target is given or the current exposure is
\* ~0, and current + adjustment * sign only otherwise.
C19_TargetBeforeAdjustment ==
    (Derived /\ ~ClosesOrFlat) =>
        evalOut.Desired =
            IF evalIn.TargetExposurePct > 0 \/ Abs(evalIn.CurrentExposurePercent) < 2
            THEN evalIn.TargetExposurePct * evalOut.Sign
            ELSE evalIn.CurrentExposurePercent + evalIn.AdjustmentPct * evalOut.Sign

\* C19 (amended): for a decision that is neither CLOSE nor FLAT the desired
\* exposure is current + adjustment * sign whenever the adjustment is not zero;
\* with a zero adjustment it is target * sign when a target is given or the
\* current exposure is ~0, and the current exposure otherwise.
C19_AdjustmentBeforeTarget ==
    (Derived /\ ~ClosesOrFlat) =>
        evalOut.Desired =
            IF evalIn.AdjustmentPct # 0
            THEN evalIn.CurrentExposurePercent + evalIn.AdjustmentPct * evalOut.Sign
            ELSE IF evalIn.TargetExposurePct > 0 \/ Abs(evalIn.CurrentExposurePercent) < 2
            THEN evalIn.TargetExposurePct * evalOut.Sign
            ELSE evalIn.CurrentExposurePercent

\* a target of 0.10 given together with an adjustment of -0.05 on a long of 0.10:
\* the adjustment decides
C19_Witness ==
    /\ Derived
    /\ evalIn.Intent = "OPEN" /\ evalIn.Direction = "LONG"
    /\ evalIn.TargetExposurePct = 200000 /\ evalIn.AdjustmentPct = -100000
    /\ evalIn.CurrentExposurePercent = 200000
    /\ evalOut.Desired = 100000

\* the sign of a number, long for zero
SignOrLong(x) == IF x < 0 THEN -1 ELSE 1

-----------------------------------------------------------------------------
(* Claims about buildOrderRequests, checked under SpecBuild *)

Built == buildOut # NoBuild

Accepted == Built /\ buildOut.err = "nil"

PlanDiff == buildIn.plan.TargetExposure - buildIn.plan.CurrentExposure

\* C13: a plan whose risk status is not proceed gets the "risk not allowed" error
\* and no orders, whatever its market price and equity are.
C13_RiskNotAllowedFirst ==
    (Built /\ buildIn.plan.Status # "proceed") =>
        /\ buildOut.err = "risk_not_allowed"
        /\ buildOut.orders = <<>>

\* a denied plan with price 0 and equity 0 got the risk error
C13_Witness ==
    /\ Built
    /\ buildIn.plan.Status = "deny"
    /\ buildIn.plan.MarketPrice <= 0 /\ buildIn.plan.TotalEquity <= 0
    /\ buildOut.err = "risk_not_allowed"

\* C14 (as claimed): every approved plan with |target - current| < 1e-6 gets the
\* no-op error and zero orders.
C14_NoopForEveryApprovedPlan ==
    (Built /\ buildIn.plan.Status = "proceed" /\ Abs(PlanDiff) < 2) =>
        /\ buildOut.err = "noop"
        /\ buildOut.orders = <<>>

\* C14 (amended): an approved plan with |target - current| < 1e-6 gets zero
\* orders and an error: the no-op error when its market price is positive, the
\* invalid-price error when it is not.
C14_NoopAfterPriceCheck ==
    (Built /\ buildIn.plan.Status = "proceed" /\ Abs(PlanDiff) < 2) =>
        /\ buildOut.orders = <<>>
        /\ buildOut.err = IF buildIn.plan.MarketPrice > 0 THEN "noop" ELSE "price_invalid"

\* an approved plan half a tolerance away from the current exposure got the no-op error
C14_Witness ==
    /\ Built
    /\ buildIn.plan.Status = "proceed"
    /\ PlanDiff # 0 /\ Abs(PlanDiff) < 2
    /\ buildIn.plan.MarketPrice > 0
    /\ buildOut.err = "noop" /\ buildOut.orders = <<>>

\* the plan carries a stop-loss and a take-profit: as prices of the plan for the
\* revision that embeds them, as the decision's price strings for the revision
\* that places separate orders
CarriesProtection ==
    IF variant = "typed"
    THEN buildIn.plan.StopLoss > 0 /\ buildIn.plan.TakeProfit > 0
    ELSE buildIn.plan.NewStopLoss = "450" /\ buildIn.plan.NewTakeProfit = "520"

\* C15: for an accepted plan that is not a full close and carries a stop-loss and
\* a take-profit, both prices are on the orders: as stopLossPrice / takeProfitPrice
\* parameters of the primary order, or as a take-profit and a stop-loss order after
\* the primary one, each a reduce-only limit order tagged isTrigger with its
\* triggerType and triggerPrice, on the side opposite the target position, of
\* amount |target| * equity / price.
C15_ProtectionKept ==
    (Accepted /\ Abs(buildIn.plan.TargetExposure) >= 2 /\ CarriesProtection) =>
        IF variant = "typed"
        THEN /\ <<"stopLossPrice", buildIn.plan.StopLoss>> \in buildOut.orders[1].Params
             /\ <<"takeProfitPrice", buildIn.plan.TakeProfit>> \in buildOut.orders[1].Params
        ELSE /\ Len(buildOut.orders) = 3
             /\ buildOut.orders[1].Type = "market"
             /\ buildOut.orders[2].TriggerType = "take_profit"
             /\ buildOut.orders[2].TriggerPrice = 520
             /\ <<"takeProfitPrice", "520">> \in buildOut.orders[2].Params
             /\ buildOut.orders[3].TriggerType = "stop_loss"
             /\ buildOut.orders[3].TriggerPrice = 450
             /\ <<"stopLossPrice", "450">> \in buildOut.orders[3].Params
             /\ \A i \in {2, 3} :
                   /\ buildOut.orders[i].Type = "limit"
                   /\ buildOut.orders[i].IsTrigger
                   /\ buildOut.orders[i].ReduceOnly
                   /\ <<"reduceOnly", TRUE>> \in buildOut.orders[i].Params
                   /\ buildOut.orders[i].Side =
                         (IF buildIn.plan.TargetExposure > 0 THEN "sell" ELSE "buy")
                   /\ buildOut.orders[i].Amount * buildIn.plan.MarketPrice =
                         Abs(buildIn.plan.TargetExposure) * buildIn.plan.TotalEquity
                   /\ buildOut.orders[i].Amount > 0

\* a short target with both prices, built as three orders
C15_Witness ==
    /\ Accepted
    /\ variant = "trigger"
    /\ buildIn.plan.TargetExposure = -200000
    /\ CarriesProtection
    /\ Len(buildOut.orders) = 3
    /\ buildOut.orders[3].Side = "buy"

\* C16: the primary order of an accepted plan is a market order, buy when
\* target - current > 0 and sell otherwise, of amount |target - current| * equity / price,
\* which is positive.
C16_PrimaryOrder ==
    Accepted =>
        /\ Len(buildOut.orders) >= 1
        /\ buildOut.orders[1].Type = "market"
        /\ buildOut.orders[1].Side = (IF PlanDiff > 0 THEN "buy" ELSE "sell")
        /\ buildOut.orders[1].Amount * buildIn.plan.MarketPrice =
              Abs(PlanDiff) * buildIn.plan.TotalEquity
        /\ buildOut.orders[1].Amount > 0

\* scenario A: equity 100000, current 0, target 0.10, price 50000: buy 0.2, not reduce-only
C16_Witness ==
    /\ Accepted
    /\ buildIn.plan.TotalEquity = 1000 /\ buildIn.plan.MarketPrice = 500
    /\ buildIn.plan.CurrentExposure = 0 /\ buildIn.plan.TargetExposure = 200000
    /\ buildOut.orders[1].Side = "buy"
    /\ buildOut.orders[1].Amount = 400000
    /\ ~buildOut.orders[1].ReduceOnly

TargetNearZero == Abs(buildIn.plan.TargetExposure) < 2

SameSignNotLarger ==
    /\ \/ buildIn.plan.TargetExposure > 0 /\ buildIn.plan.CurrentExposure > 0
       \/ buildIn.plan.TargetExposure < 0 /\ buildIn.plan.CurrentExposure < 0
    /\ Abs(buildIn.plan.TargetExposure) <= Abs(buildIn.plan.CurrentExposure)

\* C17: on the primary order of an accepted plan, reduceOnly is true exactly when
\* the target has the sign of the current exposure and is not larger in magnitude,
\* or |target| < 1e-6; closeAll is true exactly when |target| < 1e-6, and then
\* the order carries the close-position flag; an order that opens, enlarges or
\* flips a position to a target of 1e-6 or more is never reduceOnly.
C17_ReduceOnlyAndCloseAll ==
    Accepted =>
        /\ buildOut.orders[1].ReduceOnly <=> (SameSignNotLarger \/ TargetNearZero)
        /\ buildOut.orders[1].CloseAll <=> TargetNearZero
        /\ <<"reduceOnly", buildOut.orders[1].ReduceOnly>> \in buildOut.orders[1].Params
        /\ (<<"closePosition", TRUE>> \in buildOut.orders[1].Params) <=> TargetNearZero
        /\ (~TargetNearZero /\ (\/ buildIn.plan.CurrentExposure = 0
                                \/ ProductNegative(buildIn.plan.TargetExposure,
                                                   buildIn.plan.CurrentExposure)
                                \/ Abs(buildIn.plan.TargetExposure) >
                                      Abs(buildIn.plan.CurrentExposure)))
              => ~buildOut.orders[1].ReduceOnly

\* scenario D: a target within 1e-6 of zero with a position open
C17_Witness ==
    /\ Accepted
    /\ TargetNearZero
    /\ buildIn.plan.CurrentExposure = -200000
    /\ buildOut.orders[1].ReduceOnly /\ buildOut.orders[1].CloseAll
    /\ <<"closePosition", TRUE>> \in buildOut.orders[1].Params
    /\ buildOut.orders[1].Side = "buy"

-----------------------------------------------------------------------------
(* Claims about orchestrator.Tick, checked under SpecTick *)

\* the assets the loop of the latest Tick has been through
Processed == 1..Len(tkinds)

\* Tick has returned an error
TickFailed == tickRet \notin {"none", "running", "nil"}

C22_EveryResultIsHandedOver ==
    \A i \in Processed :
        /\ tkinds[i] \in {"denied", "plan_rejected", "exec_error", "executed"} =>
              \E e \in handed : e.type = "risk_evaluation" /\ e.asset = TickAssets[i]
        /\ tkinds[i] \in {"exec_error", "executed"} =>
              \E e \in handed : e.type = "execution" /\ e.asset = TickAssets[i]

\* C23: a failure of the sink to record an event never aborts the cycle: whether
\* the record calls of a pass succeed or fail, the pass ends as the flow of the
\* asset alone dictates, with the same ledger update, the same submission and the
\* same return of Tick.
C23_SinkFailureChangesNothing ==
    [][ /\ (ticks' = ticks + 1) =>
              /\ tickRet' \in {"nil", "running", "market_snapshot", "ai_error"}
              /\ tickRet' = "running" <=> tpc' = "loop"
        /\ (tpc = "loop" /\ tkinds' # tkinds) =>
          \E st \in AssetStates, ledgerOk, execOk \in BOOLEAN :
              LET asset == TickAssets[tidx]
                  in == TickEvalInput(asset, st)
                  date == tradingDay(in.Timestamp, cfg.DailyLossResetHour)
                  upd == TickLedger(in, ledgerOk)
                  flow == AssetFlow(asset, st, upd.status, execOk)
              IN  /\ tkinds' = Append(tkinds, flow.kind)
                  /\ handed' = handed \cup flow.handed
                  /\ rows' = IF st.decision # NoDecision
                             THEN [rows EXCEPT ![date] = upd.row] ELSE rows
                  /\ submitted' = IF flow.kind = "executed"
                                  THEN [submitted EXCEPT ![tidx] = @ + 1] ELSE submitted
                  /\ IF flow.err = "nil"
                     THEN tpc' = "loop" /\ tidx' = tidx + 1 /\ tickRet' = tickRet
                     ELSE tpc' = "returned" /\ tickRet' = flow.err
                  /\ lastDecision' = lastDecision ]_vars

\* a Tick that went through every asset and returned nil, with an order
\* submitted, although the sink lost the risk evaluation of that asset
C23_Witness ==
    /\ tpc = "returned" /\ tickRet = "nil"
    /\ Len(tkinds) = Len(TickAssets)
    /\ \E i \in Processed :
          /\ tkinds[i] = "executed"
          /\ \E e \in handed \ stored : e.type = "risk_evaluation" /\ e.asset = TickAssets[i]
          /\ \E e \in handed \ stored : e.type = "execution" /\ e.asset = TickAssets[i]

\* C30: lastDecision is advanced only at the end of a Tick in which every asset
\* was processed without error; a Tick called less than decisionInterval after
\* such a Tick evaluates no risk and submits no order; a Tick that returns an
\* error leaves lastDecision unchanged, and the Tick after it is not skipped and
\* starts again at the first asset.
C30_LastDecisionOnlyAfterCleanTick ==
    [][ /\ lastDecision' # lastDecision =>
              /\ tpc = "loop" /\ Len(tkinds) = Len(TickAssets)
              /\ \A i \in Processed : tkinds[i] \in {"no_decision", "denied", "executed"}
              /\ lastDecision' = tnow
              /\ tickRet' = "nil"
        /\ (ticks' = ticks + 1 /\ lastDecision # 0
              /\ clock - lastDecision < DecisionInterval) =>
              /\ tpc' = "returned" /\ tickRet' = "nil"
              /\ tkinds' = <<>>
              /\ rows' = rows /\ activityLog' = activityLog
              /\ submitted' = submitted
              /\ handed' = {}
        /\ (tickRet' \notin {"none", "running", "nil"}) => lastDecision' = lastDecision
        /\ (ticks' = ticks + 1 /\ TickFailed) =>
              /\ tickRet' # "nil"
              /\ tpc' = "loop" => tidx' = 1 /\ tkinds' = <<>> ]_vars

\* the orders of the first asset submitted a second time, by the Tick that
\* follows a Tick that failed at the second asset
C30_Witness ==
    /\ ticks = 2
    /\ lastDecision = 0
    /\ submitted[1] = 2
    /\ tkinds = <<"executed">>

====
